---- MODULE Spec2Model ----
(***************************************************************************)
(* The batch scripts of chronosync-plane-api: the import runs              *)
(* createTasksInPlane (src/unnamed/part_000), testImport                   *)
(* (src/src/testImport.ts) and directImport (src/src/createTask.ts), and   *)
(* the clean-up run deleteAllTasks (src/src/deleteTasks.ts), each driving  *)
(* a PlaneClient (src/src/planeClient.ts) against the remote service.      *)
(*                                                                         *)
(* Every script is one async function: a state of the model is a position  *)
(* of that function (pc, idx), its local variables, and what it has sent   *)
(* to the remote service so far. The remote service's answers are the      *)
(* nondeterministic inputs.                                                *)
(***************************************************************************)
EXTENDS Integers, Sequences, FiniteSets, TLC

VARIABLES
  prog,          \* the script that runs
  pc,            \* position in the script
  projectId,     \* PlaneClient.projectId
  states,        \* the IssueState[] the script works on
  tasks,         \* the Task[] of the run
  idx,           \* index of the current record in the list being looped over
  inflight,      \* the record whose createIssue is awaited, or NoTask
  taskIdMap,     \* local id -> remote id
  createdTasks,  \* the created-tasks summary (testImport, directImport)
  calls,         \* the createIssue payloads sent, in order
  outcomes,      \* what the run reported per record (its console lines), in order
  responses,     \* the answers received to the createIssue calls, in order
  lastGap,       \* the delay performed between the two latest mutating calls
  sinceCall,     \* ms of delay performed since the latest mutating call (-1: none sent)
  issues,        \* deleteAllTasks: the fetched issue list
  retries,       \* deleteAllTasks: retries of the current issue
  success,       \* deleteAllTasks: success of the current issue
  attempts,      \* deleteAllTasks: deleteIssue calls sent for the current issue
  waits,         \* deleteAllTasks: backoff waits performed for the current issue
  replies,       \* deleteAllTasks: the answers to the current issue's deleteIssue calls
  waitTimeMs,    \* deleteAllTasks: the wait computed from the latest 429 response
  delResult,     \* deleteAllTasks: per issue, how its loop ended
  delCalls,      \* deleteAllTasks: the issue ids deleteIssue was called with, in order
  fn,            \* the function of the scripts or of the client applied last
  arg,           \* the argument it was applied to
  ret,           \* what it returned
  env,           \* process.env: the four variables of the client's configuration
  constructed,   \* whether new PlaneClient() has returned a client
  history        \* the calls made on the client: method, result, HTTP request sent

vars == <<prog, pc, projectId, states, tasks, idx, inflight, taskIdMap, createdTasks,
          calls, outcomes, responses, lastGap, sinceCall, issues, retries, success,
          attempts, waits, replies, waitTimeMs, delResult, delCalls, fn, arg, ret,
          env, constructed, history>>

fnVars == <<fn, arg, ret>>

clientVars == <<env, constructed, history>>

importVars == <<states, tasks, inflight, taskIdMap, createdTasks, calls, outcomes,
                responses>>

deleteVars == <<issues, retries, success, attempts, waits, replies, waitTimeMs,
                delResult, delCalls>>

-----------------------------------------------------------------------------
(* Bounds of the model *)

\* longest batch read from datas.csv
MaxTasks == 3

-----------------------------------------------------------------------------
(* JavaScript values *)

null == "<null>"
undefined == "<undefined>"
\* the value of a property inherited from Object.prototype (a function)
InheritedFunction == "<function>"
NoTask == [id |-> undefined, parentId |-> undefined, status |-> undefined]

\* !!v
Truthy(v) == v \notin {undefined, null, ""}

\* the property names every object literal {} inherits from Object.prototype
ObjectPrototypeKeys == {"constructor", "toString", "valueOf", "hasOwnProperty"}

\* {} : an object literal without own properties
EmptyObject == [k \in {} |-> ""]

\* obj[k] on an object created as a literal: own property, else inherited, else undefined
Get(obj, k) ==
  IF k \in DOMAIN obj THEN obj[k]
  ELSE IF k \in ObjectPrototypeKeys THEN InheritedFunction
  ELSE undefined

\* an assignment that replaces the object by one holding the new property only
Put_Replace(obj, k, v) == [x \in {k} |-> v]

\* obj[k] = v
Put(obj, k, v) == [x \in DOMAIN obj \cup {k} |-> IF x = k THEN v ELSE obj[x]]

\* a comparison of the group names that keeps their case
toLowerCase_KeepCase(s) == s

\* String.prototype.toLowerCase on the group names the catalogs below carry
toLowerCase(s) ==
  CASE s = "Backlog" -> "backlog"
    [] s = "BACKLOG" -> "backlog"
    [] s = "To_Do" -> "to_do"
    [] s = "Started" -> "started"
    [] OTHER -> s

\* process.env with the four variables of the README
Env(url, key, slug, project) ==
  [PLANE_API_URL |-> url, PLANE_API_KEY |-> key, WORKSPACE_SLUG |-> slug,
   PROJECT_NAME |-> project]

\* the environment the scripts run in
ScriptEnv == Env("https://plane", "plane_api_key", "workspace", "P1")
-----------------------------------------------------------------------------
(* The lookup tables of the import scripts *)

\* statusMap (an object literal: lookups go through Get)
statusMap ==
  [k \in {"taches à completer", "taches en planning", "taches terminé(e)s",
          "taches fermé(e)s"} |->
     CASE k = "taches à completer" -> "to_do"
       [] k = "taches en planning" -> "backlog"
       [] k = "taches terminé(e)s" -> "done"
       [] OTHER -> "cancelled"]

\* the Task records: id, parentId (null for a root), status
Task(id, parentId, status) == [id |-> id, parentId |-> parentId, status |-> status]

\* sampleTasks of testImport.ts: three parents, four children
sampleTasks ==
  << Task("86c2qfwg9", null, "taches en planning"),
     Task("86c2qfwyp", "86c2qfwg9", "taches à completer"),
     Task("86c2qfwyu", "86c2qfwg9", "taches à completer"),
     Task("86c2qqxkd", null, "taches en planning"),
     Task("86c2qr3y3", "86c2qqxkd", "taches à completer"),
     Task("86c2qk38c", null, "taches en planning"),
     Task("86c2qk3df", "86c2qk38c", "taches à completer") >>
\* groupTasksByHierarchy: the records without and with a parent, each in input order
IsParentTask(task) == task.parentId = null
\* a test of the parent reference for truthiness
IsChildTask_Truthy(task) == Truthy(task.parentId)
IsChildTask(task) == task.parentId # null
groupTasksByHierarchy(ts) ==
  [parentTasks |-> SelectSeq(ts, IsParentTask),
   childTasks |-> SelectSeq(ts, IsChildTask)]

parentTasks == groupTasksByHierarchy(tasks).parentTasks
childTasks == groupTasksByHierarchy(tasks).childTasks

-----------------------------------------------------------------------------
(* The inputs of a run *)

\* the local ids of the records of datas.csv, by line; the third one is a property
\* name that every object literal inherits
LocalIds == <<"A", "B", "constructor", "C", "D">>

\* the parent column: null, a local id of the batch, or an id that is in no batch
ParentRefs == {null, "A", "B", "constructor", "Z"}

\* the status column
StatusLabels == {"taches en planning", "taches à completer"}

\* the batches parseTaskData can return: at least one record (an empty file still
\* splits into one line), local ids unique
Batches ==
  UNION { { [k \in 1..n |-> Task(LocalIds[k], par[k], st[k])] :
              par \in [1..n -> ParentRefs], st \in [1..n -> StatusLabels] } :
          n \in 1..MaxTasks }

\* directImport never reads the parent column: for its runs the column is drawn from
\* two values only, no parent and a parent that is in no batch
DirectBatches ==
  { b \in Batches : \A k \in 1..Len(b) : b[k].parentId \in {null, "Z"} }

\* the batches a script can read
BatchesOf(p) == IF p = "directImport" THEN DirectBatches ELSE Batches

\* the state lists the remote service may hold
IssueState(id, group) == [id |-> id, group |-> group]
Catalogs ==
  { <<>>,
    << IssueState("s1", "backlog") >>,
    << IssueState("s1", "Backlog"), IssueState("s2", "to_do") >>,
    << IssueState("s3", "Started") >> }

\* the answers of getIssueStates: a bare array, an envelope with results, an
\* envelope without
StatesResponses ==
  { [isArray |-> TRUE, hasResults |-> FALSE, items |-> c] : c \in Catalogs }
    \cup { [isArray |-> FALSE, hasResults |-> TRUE, items |-> c] : c \in Catalogs }
    \cup { [isArray |-> FALSE, hasResults |-> FALSE, items |-> <<>>] }

\* Array.isArray(r) ? r : (r.results ? r.results : [])
NormaliseStates(r) ==
  IF r.isArray THEN r.items
  ELSE IF r.hasResults THEN r.items ELSE <<>>

\* the ids the remote service gives to the issues it creates, in order of creation
RemoteIds == <<"r1", "r2", "r3", "r4", "r5", "r6", "r7", "r8">>

\* how a createIssue call can end: the created issue, HTTP 429, any other error
CreateErrors == {"rate_limited", "error"}

-----------------------------------------------------------------------------
(* State resolution *)

\* what Array.prototype.find returns when nothing matches
NoState == [id |-> undefined, group |-> undefined]

RECURSIVE FindState(_, _)
\* states.find(s => s.group && s.group.toLowerCase() === key): the first match
FindState(ss, key) ==
  IF ss = <<>> THEN NoState
  ELSE IF Truthy(Head(ss).group) /\ toLowerCase(Head(ss).group) = key THEN Head(ss)
  ELSE FindState(Tail(ss), key)

\* createTasksInPlane: the id of the first state of the group, else the mapped key,
\* else 'backlog'
ResolveStateLiteral(ss, status) ==
  LET key == Get(statusMap, status)
      stateObj == IF Len(ss) > 0 THEN FindState(ss, key) ELSE NoState
      state == IF stateObj # NoState THEN stateObj.id ELSE ""
  IN IF Truthy(state) THEN state
     ELSE IF Truthy(key) THEN key ELSE "backlog"

RECURSIVE BuildStateMapping(_, _)
\* for (const state of states) stateMapping[state.group.toLowerCase()] = state.id
BuildStateMapping(ss, acc) ==
  IF ss = <<>> THEN acc
  ELSE BuildStateMapping(Tail(ss), Put(acc, toLowerCase(Head(ss).group), Head(ss).id))

stateMapping == BuildStateMapping(states, EmptyObject)

\* testImport, directImport: statusKey = statusMap[status] || 'backlog'
StatusKey(status) ==
  LET key == Get(statusMap, status) IN IF Truthy(key) THEN key ELSE "backlog"

\* a lookup that falls back on the mapped key when the mapping has no entry
ResolveStateId_LiteralFallback(status) ==
  IF Truthy(Get(stateMapping, StatusKey(status))) THEN Get(stateMapping, StatusKey(status))
  ELSE StatusKey(status)

\* stateMapping[statusKey]
ResolveStateId(status) == Get(stateMapping, StatusKey(status))
-----------------------------------------------------------------------------
(* The import runs: createTasksInPlane, testImport, directImport *)

HierarchicalRuns == {"createTasksInPlane", "testImport"}
ImportRuns == HierarchicalRuns \cup {"directImport"}

NoGap == [from |-> undefined, to |-> undefined, ms |-> 0]

\* the loop a run enters once it has its records, and the record it starts with
FirstPosition(p, ts) ==
  IF p = "directImport" THEN <<"direct", 1>>
  ELSE IF Len(groupTasksByHierarchy(ts).parentTasks) > 0 THEN <<"parents", 1>>
  ELSE IF Len(groupTasksByHierarchy(ts).childTasks) > 0 THEN <<"children", 1>>
  ELSE <<"done", 0>>

\* the loops' control flow: after iteration i of loop p comes the next record of the
\* loop, then the next loop, then the end of the run
NextPosition(p, i) ==
  CASE p = "parents" ->
         IF i < Len(parentTasks) THEN <<"parents", i + 1>>
         ELSE IF Len(childTasks) > 0 THEN <<"children", 1>>
         ELSE <<"done", 0>>
    [] p = "children" ->
         IF i < Len(childTasks) THEN <<"children", i + 1>> ELSE <<"done", 0>>
    [] p = "main" -> <<"done", 0>>
    [] OTHER ->
         IF i < Len(tasks) THEN <<"direct", i + 1>> ELSE <<"done", 0>>

\* a catch block that rethrows: the failure of one record ends the run
AfterCreateFailure_Abort(p, i) == <<"aborted", 0>>

\* a catch block that sends the same record again
AfterCreateFailure_Retry(p, i) == <<p, i>>

\* a catch block that turns to the deletion of what the run has created
AfterCreateFailure_Rollback(p, i) == <<"delete", 1>>

\* the catch block of an iteration: log the failure, go on with the next record
AfterCreateFailure(p, i) == NextPosition(p, i)

\* the record the current iteration works on
CurrentTask ==
  CASE pc = "parents" -> parentTasks[idx]
    [] pc = "children" -> childTasks[idx]
    [] OTHER -> tasks[idx]

\* a skip that logs nothing
Report_SilentSkip(outs, task, kind) ==
  IF kind = "SkippedMissingParent" THEN outs
  ELSE Append(outs, [task |-> task.id, kind |-> kind])

\* the console line an iteration ends with, per record
Report(outs, task, kind) == Append(outs, [task |-> task.id, kind |-> kind])

\* if (!taskIdMap[task.parentId!]) continue;
ParentInPlane(map, task) == Truthy(Get(map, task.parentId))

\* the state value a script puts in the payload of a record ("" or undefined: none)
PayloadState(p, task) ==
  IF p = "createTasksInPlane" THEN ResolveStateLiteral(states, task.status)
  ELSE ResolveStateId(task.status)

\* a loop whose iterations do not wait for the call they sent
Awaited_FireAndForget(call) == TRUE

\* await client.createIssue(payload): the script goes on when the call in flight,
\* if any, has resolved
Awaited(call) == call = NoTask

\* the payload of main (createTask.ts): a name, a priority, no state, no parent
MainTask == Task("amogus", null, undefined)

\* the mutating call goes out: nothing was waited since the call before it
SendCall(task, prev) ==
  /\ lastGap' = IF sinceCall < 0 THEN NoGap
                ELSE [from |-> prev, to |-> task.id, ms |-> sinceCall]
  /\ sinceCall' = 0

Goto(pos) == pc' = pos[1] /\ idx' = pos[2]

\* new PlaneClient(); await client.initialize(): the project is found
InitializeOk ==
  /\ pc = "initialize"
  /\ projectId' = "p1"
  /\ pc' = CASE prog = "deleteAllTasks" -> "getIssues"
             [] prog = "main" -> "main"
             [] OTHER -> "getIssueStates"
  /\ UNCHANGED <<prog, fnVars, clientVars, idx, lastGap, sinceCall, importVars, deleteVars>>

\* initialize() throws: the run ends before anything else
InitializeThrows ==
  /\ pc = "initialize"
  /\ pc' = "aborted"
  /\ UNCHANGED <<prog, fnVars, clientVars, projectId, idx, lastGap, sinceCall, importVars, deleteVars>>

\* a script that goes on to its loops with an empty state list
NoStatesReturn_GoOn(p, ss) == FALSE

\* if (states.length === 0) { console.error(...); return; } in testImport and
\* directImport; createTasksInPlane only warns
NoStatesReturn(p, ss) == p # "createTasksInPlane" /\ Len(ss) = 0

\* await client.getIssueStates(), the response normalised; testImport and
\* directImport return when there is no state
GetIssueStates ==
  /\ pc = "getIssueStates"
  /\ \E r \in StatesResponses :
       /\ states' = NormaliseStates(r)
       /\ IF NoStatesReturn(prog, states')
            THEN pc' = "returned" /\ idx' = idx
          ELSE IF prog = "testImport"
            THEN Goto(FirstPosition(prog, tasks))
          ELSE pc' = "readCsv" /\ idx' = idx
  /\ UNCHANGED <<prog, fnVars, clientVars, projectId, tasks, inflight, taskIdMap, createdTasks, calls,
                 outcomes, responses, lastGap, sinceCall, deleteVars>>

\* getIssueStates() throws
GetIssueStatesThrows ==
  /\ pc = "getIssueStates"
  /\ pc' = "aborted"
  /\ UNCHANGED <<prog, fnVars, clientVars, projectId, idx, lastGap, sinceCall, importVars, deleteVars>>

\* fs.readFileSync('datas.csv') and parseTaskData
ReadCsv ==
  /\ pc = "readCsv"
  /\ \E b \in BatchesOf(prog) :
       /\ tasks' = b
       /\ Goto(FirstPosition(prog, b))
  /\ UNCHANGED <<prog, fnVars, clientVars, projectId, states, inflight, taskIdMap, createdTasks, calls,
                 outcomes, responses, lastGap, sinceCall, deleteVars>>

\* fs.readFileSync throws: directImport catches it and ends, createTasksInPlane
\* rejects
ReadCsvThrows ==
  /\ pc = "readCsv"
  /\ pc' = IF prog = "directImport" THEN "done" ELSE "aborted"
  /\ UNCHANGED <<prog, fnVars, clientVars, projectId, idx, lastGap, sinceCall, importVars, deleteVars>>

\* an iteration of the parents' loop up to its await: the payload is sent
CreateParentTask ==
  /\ pc = "parents" /\ Awaited(inflight) /\ prog \in HierarchicalRuns
  /\ Truthy(projectId)
  /\ LET task == CurrentTask
         state == PayloadState(prog, task)
     IN /\ Truthy(state)
        /\ calls' = Append(calls, [task |-> task.id, state |-> state,
                                   parent |-> undefined])
        /\ inflight' = task
        /\ SendCall(task, IF calls = <<>> THEN undefined ELSE calls[Len(calls)].task)
  /\ UNCHANGED <<prog, fnVars, clientVars, pc, projectId, states, tasks, idx, taskIdMap, createdTasks,
                 outcomes, responses, deleteVars>>

\* testImport: no state id for the record's status: continue
SkipParentNoState ==
  /\ pc = "parents" /\ Awaited(inflight) /\ prog = "testImport"
  /\ ~Truthy(PayloadState(prog, CurrentTask))
  /\ outcomes' = Report(outcomes, CurrentTask, "SkippedUnmappableState")
  /\ Goto(NextPosition(pc, idx))
  /\ UNCHANGED <<prog, fnVars, clientVars, projectId, states, tasks, inflight, taskIdMap, createdTasks,
                 calls, responses, lastGap, sinceCall, deleteVars>>

\* the parent is not in taskIdMap: continue
SkipChildMissingParent ==
  /\ pc = "children" /\ Awaited(inflight) /\ prog \in HierarchicalRuns
  /\ ~ParentInPlane(taskIdMap, CurrentTask)
  /\ outcomes' = Report(outcomes, CurrentTask, "SkippedMissingParent")
  /\ Goto(NextPosition(pc, idx))
  /\ UNCHANGED <<prog, fnVars, clientVars, projectId, states, tasks, inflight, taskIdMap, createdTasks,
                 calls, responses, lastGap, sinceCall, deleteVars>>

\* testImport: the parent is there, the state id is not: continue
SkipChildNoState ==
  /\ pc = "children" /\ Awaited(inflight) /\ prog = "testImport"
  /\ ParentInPlane(taskIdMap, CurrentTask)
  /\ ~Truthy(PayloadState(prog, CurrentTask))
  /\ outcomes' = Report(outcomes, CurrentTask, "SkippedUnmappableState")
  /\ Goto(NextPosition(pc, idx))
  /\ UNCHANGED <<prog, fnVars, clientVars, projectId, states, tasks, inflight, taskIdMap, createdTasks,
                 calls, responses, lastGap, sinceCall, deleteVars>>

\* an iteration of the children's loop up to its await: the payload, with the
\* parent's remote id, is sent
CreateChildTask ==
  /\ pc = "children" /\ Awaited(inflight) /\ prog \in HierarchicalRuns
  /\ Truthy(projectId)
  /\ LET task == CurrentTask
         state == PayloadState(prog, task)
     IN /\ ParentInPlane(taskIdMap, task)
        /\ Truthy(state)
        /\ calls' = Append(calls, [task |-> task.id, state |-> state,
                                   parent |-> Get(taskIdMap, task.parentId)])
        /\ inflight' = task
        /\ SendCall(task, IF calls = <<>> THEN undefined ELSE calls[Len(calls)].task)
  /\ UNCHANGED <<prog, fnVars, clientVars, pc, projectId, states, tasks, idx, taskIdMap, createdTasks,
                 outcomes, responses, deleteVars>>

\* main: the one createIssue call of the script is sent
MainCreate ==
  /\ pc = "main" /\ Awaited(inflight) /\ prog = "main"
  /\ Truthy(projectId)
  /\ calls' = Append(calls, [task |-> MainTask.id, state |-> undefined,
                             parent |-> undefined])
  /\ inflight' = MainTask
  /\ SendCall(MainTask, undefined)
  /\ UNCHANGED <<prog, fnVars, clientVars, pc, projectId, states, tasks, idx, taskIdMap,
                 createdTasks, outcomes, responses, deleteVars>>

\* directImport: an iteration up to its await; the parent column is not read
DirectCreate ==
  /\ pc = "direct" /\ Awaited(inflight) /\ prog = "directImport"
  /\ Truthy(projectId)
  /\ LET task == CurrentTask
         state == PayloadState(prog, task)
     IN /\ Truthy(state)
        /\ calls' = Append(calls, [task |-> task.id, state |-> state,
                                   parent |-> undefined])
        /\ inflight' = task
        /\ SendCall(task, IF calls = <<>> THEN undefined ELSE calls[Len(calls)].task)
  /\ UNCHANGED <<prog, fnVars, clientVars, pc, projectId, states, tasks, idx, taskIdMap, createdTasks,
                 outcomes, responses, deleteVars>>

\* directImport: no state id for the record's status: continue
DirectSkipNoState ==
  /\ pc = "direct" /\ Awaited(inflight) /\ prog = "directImport"
  /\ ~Truthy(PayloadState(prog, CurrentTask))
  /\ outcomes' = Report(outcomes, CurrentTask, "SkippedUnmappableState")
  /\ Goto(NextPosition(pc, idx))
  /\ UNCHANGED <<prog, fnVars, clientVars, projectId, states, tasks, inflight, taskIdMap, createdTasks,
                 calls, responses, lastGap, sinceCall, deleteVars>>

\* a summary that takes its new entry at the front
PushCreated_Unshift(list, task, createdTask) ==
  <<[task |-> task.id, id |-> createdTask.id]>> \o list

\* createdTasks.push(`${task.name} (${createdTask.id})`)
PushCreated(list, task, createdTask) ==
  Append(list, [task |-> task.id, id |-> createdTask.id])

\* createIssue returns the created issue: the id is kept, the record reported
CreateIssueReturns ==
  /\ inflight # NoTask
  /\ LET createdTask == [id |-> RemoteIds[Len(calls)]]
     IN /\ taskIdMap' = IF prog \in HierarchicalRuns
                          THEN Put(taskIdMap, inflight.id, createdTask.id)
                          ELSE taskIdMap
        /\ createdTasks' = IF prog \in {"testImport", "directImport"}
                             THEN PushCreated(createdTasks, inflight, createdTask)
                             ELSE createdTasks
        /\ responses' = Append(responses, [task |-> inflight.id, result |-> "ok",
                                           id |-> createdTask.id])
  /\ outcomes' = Report(outcomes, inflight, "Created")
  /\ inflight' = NoTask
  /\ Goto(NextPosition(pc, idx))
  /\ UNCHANGED <<prog, fnVars, clientVars, projectId, states, tasks, calls, lastGap, sinceCall, deleteVars>>

\* createIssue throws (HTTP 429 or any other error): the catch block logs it
CreateIssueThrows ==
  /\ inflight # NoTask
  /\ \E e \in CreateErrors :
       responses' = Append(responses, [task |-> inflight.id, result |-> e,
                                       id |-> undefined])
  /\ outcomes' = Report(outcomes, inflight, "Failed")
  /\ inflight' = NoTask
  /\ Goto(AfterCreateFailure(pc, idx))
  /\ UNCHANGED <<prog, fnVars, clientVars, projectId, states, tasks, taskIdMap, createdTasks, calls,
                 lastGap, sinceCall, deleteVars>>


-----------------------------------------------------------------------------
(* The clean-up run: deleteAllTasks *)

MAX_RETRIES == 3
DEFAULT_RETRY_DELAY_MS == 5000
RETRY_AFTER_BUFFER_MS == 1000
\* await delay(500) after each issue
PACING_DELAY_MS == 500

\* most issues in the fetched list
MaxIssues == 2

IssueIds == <<"i1", "i2", "i3", "i4">>

\* the lists getIssues can answer with
IssueLists == { [k \in 1..n |-> IssueIds[k]] : n \in 0..MaxIssues }

\* the answers of getIssues: a bare array, an envelope with results, an envelope
\* without
IssuesResponses ==
  { [isArray |-> TRUE, hasResults |-> FALSE, items |-> l] : l \in IssueLists }
    \cup { [isArray |-> FALSE, hasResults |-> TRUE, items |-> l] : l \in IssueLists }
    \cup { [isArray |-> FALSE, hasResults |-> FALSE, items |-> <<>>] }

\* Array.isArray(response) ? response : (response.results || [])
NormaliseIssues(r) ==
  IF r.isArray THEN r.items
  ELSE IF r.hasResults THEN r.items ELSE <<>>

\* the retry-after header of a 429 response: absent, or a text (its characters)
NoHeader == [present |-> FALSE, text |-> <<>>]
Header(text) == [present |-> TRUE, text |-> text]
RetryAfterHeaders ==
  { NoHeader, Header(<<>>), Header(<<"2">>), Header(<<"0">>), Header(<<"1", "0">>),
    Header(<<"-", "2">>), Header(<<"a">>), Header(<<"2", "a">>), Header(<<" ", "2">>) }

DigitValue(c) ==
  CASE c = "0" -> 0 [] c = "1" -> 1 [] c = "2" -> 2 [] c = "3" -> 3 [] c = "4" -> 4
    [] c = "5" -> 5 [] c = "6" -> 6 [] c = "7" -> 7 [] c = "8" -> 8 [] OTHER -> 9
IsDigit(c) == c \in {"0", "1", "2", "3", "4", "5", "6", "7", "8", "9"}

NaN == [nan |-> TRUE, value |-> 0]
Number(n) == [nan |-> FALSE, value |-> n]

RECURSIVE SkipWhiteSpace(_)
SkipWhiteSpace(t) ==
  IF t # <<>> /\ Head(t) = " " THEN SkipWhiteSpace(Tail(t)) ELSE t

RECURSIVE ParseDigits(_, _)
\* the value of the longest prefix of digits of t, read after the digits of value acc
ParseDigits(t, acc) ==
  IF t # <<>> /\ IsDigit(Head(t)) THEN ParseDigits(Tail(t), acc * 10 + DigitValue(Head(t)))
  ELSE acc

\* parseInt(text, 10): leading white space skipped, an optional sign, then the
\* longest prefix of digits; NaN when there is no digit
parseInt(text) ==
  LET t == SkipWhiteSpace(text)
      signed == t # <<>> /\ Head(t) \in {"-", "+"}
      digits == IF signed THEN Tail(t) ELSE t
  IN IF digits = <<>> \/ ~IsDigit(Head(digits)) THEN NaN
     ELSE IF signed /\ Head(t) = "-" THEN Number(0 - ParseDigits(digits, 0))
     ELSE Number(ParseDigits(digits, 0))

\* a wait without the buffer
ComputeWaitTimeMs_NoBuffer(header) ==
  IF header.present /\ header.text # <<>> /\ ~parseInt(header.text).nan
    THEN parseInt(header.text).value * 1000
    ELSE DEFAULT_RETRY_DELAY_MS

\* the wait computed in the catch block from the header of a 429 response
ComputeWaitTimeMs(header) ==
  LET waitTimeSeconds ==
        IF header.present /\ header.text # <<>> /\ ~parseInt(header.text).nan
          THEN parseInt(header.text).value
          ELSE DEFAULT_RETRY_DELAY_MS \div 1000
  IN (waitTimeSeconds * 1000) + RETRY_AFTER_BUFFER_MS

\* a delay that does not wait
delay_None(ms) == 0

\* delay(ms): setTimeout fires after ms, and after 1 ms when ms is below 1 or
\* above 2^31 - 1
delay(ms) == IF ms < 1 \/ ms > 2147483647 THEN 1 ELSE ms

\* while (retries < MAX_RETRIES && !success)
LoopCondition(r, ok) == r < MAX_RETRIES /\ ~ok

\* giving up at the first rate limit
RetriesExhausted_AtOnce(r) == r >= 1

\* comparing with > : one more wait and one more attempt
RetriesExhausted_OffByOne(r) == r > MAX_RETRIES

\* if (retries >= MAX_RETRIES) break; else await delay(waitTimeMs)
RetriesExhausted(r) == r >= MAX_RETRIES

\* a non-rate-limit error that lets the while loop go round
AfterDeleteError_Retry == "delete"

\* the else branch of the catch block: break
AfterDeleteError == "pacing"

\* a for loop that ends at the first issue that was given up
NextIssue_StopOnFailure(i) ==
  IF i < Len(issues) /\ delResult[i] = "Success" THEN <<"delete", i + 1>>
  ELSE <<"finished", 0>>

\* the iteration of the for loop that follows the pacing delay of issue i
NextIssue(i) == IF i < Len(issues) THEN <<"delete", i + 1>> ELSE <<"finished", 0>>

\* await client.getIssues({ perPage: 100 }), the response normalised; the run
\* returns when there is no issue
GetIssues ==
  /\ pc = "getIssues"
  /\ \E r \in IssuesResponses :
       /\ issues' = NormaliseIssues(r)
       /\ IF Len(issues') = 0 THEN pc' = "returned" /\ idx' = idx
          ELSE pc' = "delete" /\ idx' = 1
  /\ UNCHANGED <<prog, fnVars, clientVars, projectId, lastGap, sinceCall, importVars, retries, success,
                 attempts, waits, replies, waitTimeMs, delResult, delCalls>>

\* getIssues() throws: process.exit(1)
GetIssuesThrows ==
  /\ pc = "getIssues"
  /\ pc' = "aborted"
  /\ UNCHANGED <<prog, fnVars, clientVars, projectId, idx, lastGap, sinceCall, importVars, deleteVars>>

\* the body of the while loop up to its await: deleteIssue is sent
DeleteIssueSend ==
  /\ pc = "delete"
  /\ LoopCondition(retries, success)
  /\ Truthy(projectId)
  /\ attempts' = attempts + 1
  /\ delCalls' = Append(delCalls, issues[idx])
  /\ lastGap' = IF sinceCall < 0 THEN NoGap
                ELSE [from |-> IF attempts > 0 THEN issues[idx] ELSE issues[idx - 1],
                      to |-> issues[idx], ms |-> sinceCall]
  /\ sinceCall' = 0
  /\ pc' = "awaitDelete"
  /\ UNCHANGED <<prog, fnVars, clientVars, projectId, idx, importVars, issues, retries, success, waits,
                 replies, waitTimeMs, delResult>>

\* deleteIssue returns: success = true, the while loop ends
DeleteIssueReturns ==
  /\ pc = "awaitDelete"
  /\ success' = TRUE
  /\ replies' = Append(replies, [result |-> "ok", header |-> NoHeader])
  /\ delResult' = Append(delResult, "Success")
  /\ pc' = "pacing"
  /\ UNCHANGED <<prog, fnVars, clientVars, projectId, idx, lastGap, sinceCall, importVars, issues, retries,
                 attempts, waits, waitTimeMs, delCalls>>

\* deleteIssue throws an axios error with status 429: count the retry, compute the
\* wait, and give up or go on to wait
DeleteIssueRateLimited ==
  /\ pc = "awaitDelete"
  /\ \E h \in RetryAfterHeaders :
       /\ replies' = Append(replies, [result |-> "rate_limited", header |-> h])
       /\ waitTimeMs' = ComputeWaitTimeMs(h)
  /\ retries' = retries + 1
  /\ IF RetriesExhausted(retries')
       THEN pc' = "pacing" /\ delResult' = Append(delResult, "Failed")
       ELSE pc' = "backoff" /\ delResult' = delResult
  /\ UNCHANGED <<prog, fnVars, clientVars, projectId, idx, lastGap, sinceCall, importVars, issues, success,
                 attempts, waits, delCalls>>

\* deleteIssue throws anything else: break
DeleteIssueFails ==
  /\ pc = "awaitDelete"
  /\ replies' = Append(replies, [result |-> "error", header |-> NoHeader])
  /\ delResult' = Append(delResult, "Failed")
  /\ pc' = AfterDeleteError
  /\ UNCHANGED <<prog, fnVars, clientVars, projectId, idx, lastGap, sinceCall, importVars, issues, retries,
                 success, attempts, waits, waitTimeMs, delCalls>>

\* await delay(waitTimeMs), then the while loop goes round
BackoffWait ==
  /\ pc = "backoff"
  /\ waits' = Append(waits, waitTimeMs)
  /\ sinceCall' = sinceCall + delay(waitTimeMs)
  /\ pc' = "delete"
  /\ UNCHANGED <<prog, fnVars, clientVars, projectId, idx, lastGap, importVars, issues, retries, success,
                 attempts, replies, waitTimeMs, delResult, delCalls>>

\* await delay(500), then the next issue with retries = 0 and success = false, or
\* the end of the run
PacingDelay ==
  /\ pc = "pacing"
  /\ sinceCall' = sinceCall + delay(PACING_DELAY_MS)
  /\ Goto(NextIssue(idx))
  /\ retries' = 0
  /\ success' = FALSE
  /\ attempts' = 0
  /\ waits' = <<>>
  /\ replies' = <<>>
  /\ UNCHANGED <<prog, fnVars, clientVars, projectId, lastGap, importVars, issues, waitTimeMs, delResult,
                 delCalls>>

-----------------------------------------------------------------------------
(* The specification: one run of one of the four scripts *)

Init ==
  /\ prog \in ImportRuns \cup {"main", "deleteAllTasks"}
  /\ pc = "initialize"
  /\ projectId = undefined
  /\ states = <<>>
  /\ tasks = IF prog = "testImport" THEN sampleTasks ELSE <<>>
  /\ idx = 0
  /\ inflight = NoTask
  /\ taskIdMap = EmptyObject
  /\ createdTasks = <<>>
  /\ calls = <<>>
  /\ outcomes = <<>>
  /\ responses = <<>>
  /\ lastGap = NoGap
  /\ sinceCall = -1
  /\ issues = <<>>
  /\ retries = 0
  /\ success = FALSE
  /\ attempts = 0
  /\ waits = <<>>
  /\ replies = <<>>
  /\ waitTimeMs = 0
  /\ delResult = <<>>
  /\ delCalls = <<>>
  /\ fn = "none"
  /\ arg = <<>>
  /\ ret = <<>>
  /\ env = ScriptEnv
  /\ constructed = TRUE
  /\ history = <<>>

Next ==
  \/ InitializeOk
  \/ InitializeThrows
  \/ GetIssueStates
  \/ GetIssueStatesThrows
  \/ ReadCsv
  \/ ReadCsvThrows
  \/ CreateParentTask
  \/ SkipParentNoState
  \/ SkipChildMissingParent
  \/ SkipChildNoState
  \/ CreateChildTask
  \/ MainCreate
  \/ DirectCreate
  \/ DirectSkipNoState
  \/ CreateIssueReturns
  \/ CreateIssueThrows
  \/ GetIssues
  \/ GetIssuesThrows
  \/ DeleteIssueSend
  \/ DeleteIssueReturns
  \/ DeleteIssueRateLimited
  \/ DeleteIssueFails
  \/ BackoffWait
  \/ PacingDelay

Spec == Init /\ [][Next]_vars

-----------------------------------------------------------------------------
(* What the claims speak of *)

Last(q) == q[Len(q)]

\* the records of the batch with local id i
RecordsWithId(i) == { k \in 1..Len(tasks) : tasks[k].id = i }

\* the createIssue calls sent for the record with local id i
CallsFor(i) == { k \in 1..Len(calls) : calls[k].task = i }

\* the reports (created, skipped, failed) made for the record with local id i
OutcomesFor(i) == { k \in 1..Len(outcomes) : outcomes[k].task = i }

OutcomeKinds == { outcomes[k].kind : k \in 1..Len(outcomes) }

ResponseKinds == { responses[k].result : k \in 1..Len(responses) }

\* the 429 answers among the current issue's replies
RateLimitedReplies == { k \in 1..Len(replies) : replies[k].result = "rate_limited" }

-----------------------------------------------------------------------------
(* C1: in createTasksInPlane and testImport, when the createIssue call of a child
   record goes out, the record of the batch that carries the child's parent
   reference as its local id has already been attempted: its create was sent and
   resolved, or it was skipped. Stated for the call in flight, as the reports only
   grow. *)
C1_ChildAfterParentAttempt ==
  (prog \in HierarchicalRuns /\ inflight # NoTask /\ inflight.parentId # null)
    => \A k \in RecordsWithId(inflight.parentId) : OutcomesFor(tasks[k].id) # {}

(* C2: in the hierarchical runs, a record whose parent reference is the local id of
   no record of the batch is never passed to createIssue. *)
C2_AbsentParentNeverSent ==
  prog \in HierarchicalRuns
    => \A c \in 1..Len(calls) :
         \A k \in RecordsWithId(calls[c].task) :
           tasks[k].parentId # null => RecordsWithId(tasks[k].parentId) # {}

(* C3: when an import run has finished, it has reported exactly one outcome
   (created, skipped or failed) for every record of the batch, and as many outcomes
   as there are records. *)
C3_OneOutcomePerRecord ==
  (prog \in ImportRuns /\ pc = "done")
    => /\ Len(outcomes) = Len(tasks)
       /\ \A k \in 1..Len(tasks) : Cardinality(OutcomesFor(tasks[k].id)) = 1

\* a finished run that created, failed and skipped records
C3_Witness ==
  /\ prog \in ImportRuns /\ pc = "done"
  /\ Len(tasks) = MaxTasks
  /\ {"Created", "Failed", "SkippedMissingParent"} \subseteq OutcomeKinds

(* C4: failure isolation: once a createIssue call has failed, the run neither ends
   by an error nor stops early: it ends only at the end of its loops, with every
   record of the batch attempted (created, failed or skipped). *)
C4_FailureIsolation ==
  (prog \in ImportRuns /\ ResponseKinds \cap CreateErrors # {})
    => /\ pc \notin {"aborted", "returned"}
       /\ pc = "done" => \A k \in 1..Len(tasks) : OutcomesFor(tasks[k].id) # {}

\* the first create failed and a later record, a child, was created all the same
C4_Witness ==
  /\ prog = "createTasksInPlane" /\ pc = "done"
  /\ Len(responses) >= 3
  /\ responses[1].result = "error"
  /\ \E k \in 2..Len(responses) :
       /\ responses[k].result = "ok"
       /\ \E c \in CallsFor(responses[k].task) : calls[c].parent # undefined

(* C5: in every import run createIssue is called at most once for each record,
   whatever the call's outcome. *)
C5_AtMostOneCreatePerRecord ==
  prog \in ImportRuns
    => \A k \in 1..Len(tasks) : Cardinality(CallsFor(tasks[k].id)) <= 1

\* a finished run with a rate-limited create, another failed create and a success
C5_Witness ==
  /\ prog \in ImportRuns /\ pc = "done"
  /\ ResponseKinds = {"ok", "rate_limited", "error"}
  /\ Len(calls) = Len(tasks)
RateLimited(h) == [result |-> "rate_limited", header |-> h]
Succeeded == [result |-> "ok", header |-> NoHeader]
Failed == [result |-> "error", header |-> NoHeader]

\* the records whose createIssue call was answered with HTTP 429
RateLimitedCreates ==
  { responses[k].task : k \in { j \in 1..Len(responses) :
                                  responses[j].result = "rate_limited" } }

(* C6, as stated: a rate-limited mutating call, create or delete alike, is sent
   again after the wait as long as fewer than 3 attempts were made: no record is
   reported Failed after a rate limit with fewer than MAX_RETRIES calls sent for
   it, and no issue is given up after a rate limit with fewer than MAX_RETRIES
   attempts. *)
C6_RateLimitedCallIsResent ==
  /\ prog \in ImportRuns
       => \A i \in RateLimitedCreates :
            (\E o \in OutcomesFor(i) : outcomes[o].kind = "Failed")
              => Cardinality(CallsFor(i)) >= MAX_RETRIES
  /\ (prog = "deleteAllTasks" /\ pc = "pacing" /\ replies # <<>>
        /\ Last(replies).result = "rate_limited")
       => attempts >= MAX_RETRIES

(* C6, amended: a deleteIssue call that is answered 429 with retry-after 2 on its
   first two attempts and succeeds on the third ends in Success after exactly two
   waits of 3000 ms, with no Failed result; a rate-limited delete is sent again
   after its wait as long as fewer than 3 attempts were made. A rate-limited
   createIssue of an import run is not sent again: its record is reported Failed
   after that one call. *)
C6_RateLimitedDeleteIsResent ==
  /\ (prog = "deleteAllTasks"
        /\ replies = << RateLimited(Header(<<"2">>)), RateLimited(Header(<<"2">>)),
                        Succeeded >>)
       => /\ waits = <<3000, 3000>>
          /\ success
          /\ Len(delResult) = idx /\ delResult[idx] = "Success"
  /\ (prog = "deleteAllTasks" /\ replies # <<>>
        /\ Last(replies).result = "rate_limited" /\ Len(replies) < MAX_RETRIES)
       => /\ pc \in {"backoff", "delete", "awaitDelete"}
          /\ pc = "backoff" => Len(waits) = Len(replies) - 1
          /\ pc \in {"delete", "awaitDelete"} => Len(waits) = Len(replies)
          /\ Len(delResult) = idx - 1
  /\ prog \in ImportRuns
       => \A i \in RateLimitedCreates :
            /\ Cardinality(CallsFor(i)) = 1
            /\ \A o \in OutcomesFor(i) : outcomes[o].kind = "Failed"
            /\ OutcomesFor(i) # {}

\* the delete that succeeds on its third attempt, after two rate limits with hint 2
C6_Witness ==
  /\ prog = "deleteAllTasks"
  /\ replies = << RateLimited(Header(<<"2">>)), RateLimited(Header(<<"2">>)), Succeeded >>

(* C7: a mutating call that fails with an error that is not a rate limit is never
   sent again for that record. In an import run the record has exactly one call and
   is reported Failed, and no wait is performed; in deleteAllTasks the error is the
   issue's last answer, the issue ends Failed, and no backoff wait follows it: an
   error on the first attempt leaves one call and zero waits. *)
C7_NoRetryOnOtherError ==
  /\ prog \in ImportRuns
       => /\ \A r \in 1..Len(responses) :
               responses[r].result = "error"
                 => /\ Cardinality(CallsFor(responses[r].task)) = 1
                    /\ \E o \in OutcomesFor(responses[r].task) :
                         outcomes[o].kind = "Failed"
          /\ sinceCall <= 0 /\ lastGap.ms = 0
  /\ prog = "deleteAllTasks"
       => \A r \in 1..Len(replies) :
            replies[r].result = "error"
              => /\ r = Len(replies)
                 /\ pc = "pacing"
                 /\ attempts = r
                 /\ Len(waits) = r - 1
                 /\ Len(delResult) = idx /\ delResult[idx] = "Failed"

\* a finished import run in which a create failed with a non-rate-limit error and
\* later records were processed
C7_Witness ==
  /\ prog \in ImportRuns /\ pc = "done"
  /\ Len(responses) >= 2
  /\ responses[1].result = "error"

(* C8: for every issue deleteAllTasks sends deleteIssue at most MAX_RETRIES = 3
   times and performs at most 2 backoff waits; after the third rate-limited
   attempt the issue is given up without a further backoff wait. *)
C8_BoundedDeleteAttempts ==
  prog = "deleteAllTasks"
    => /\ attempts <= 3
       /\ Len(waits) <= 2
       /\ pc # "backoff" \/ Len(waits) < 2
       /\ Cardinality(RateLimitedReplies) = 3
            => /\ pc = "pacing"
               /\ Len(waits) = 2
               /\ delResult[idx] = "Failed"

\* an issue given up after three rate-limited attempts
C8_Witness ==
  /\ prog = "deleteAllTasks"
  /\ Cardinality(RateLimitedReplies) = 3
  /\ attempts = 3

RECURSIVE DecimalText(_)
\* the decimal numeral of a natural number, as its characters
DecimalText(n) ==
  LET digit == <<"0", "1", "2", "3", "4", "5", "6", "7", "8", "9">>[(n % 10) + 1]
  IN IF n < 10 THEN <<digit>> ELSE Append(DecimalText(n \div 10), digit)

(* C9: the wait computed after a 429 answer is h * 1000 + 1000 ms when the
   retry-after header is there and parses as the integer h (in particular when it
   is the decimal numeral of h), and 5000 + 1000 ms when the header is absent or
   does not parse as an integer. *)
C9_BackoffWait ==
  (prog = "deleteAllTasks" /\ replies # <<>> /\ Last(replies).result = "rate_limited")
    => LET h == Last(replies).header
       IN /\ ~h.present => waitTimeMs = 5000 + 1000
          /\ \A n \in 0..12 :
               (h.present /\ h.text = DecimalText(n)) => waitTimeMs = n * 1000 + 1000
          /\ (h.present /\ parseInt(h.text).nan) => waitTimeMs = 5000 + 1000
          /\ (h.present /\ ~parseInt(h.text).nan)
               => waitTimeMs = parseInt(h.text).value * 1000 + 1000

\* a 429 answer with retry-after 10: the wait is 11 s
C9_Witness ==
  /\ prog = "deleteAllTasks" /\ replies # <<>>
  /\ Last(replies) = RateLimited(Header(<<"1", "0">>))
  /\ waitTimeMs = 11000

(* C10, as stated: between any two consecutive mutating calls of a run a delay of
   at least 500 ms is performed. *)
C10_PacingBetweenAllCalls ==
  lastGap # NoGap => lastGap.ms >= 500

(* C10, amended: in deleteAllTasks the fixed 500 ms delay is performed between the
   last deleteIssue call of one issue and the first call of the next, however the
   earlier issue ended; between two attempts on the same issue the delay is the
   backoff wait computed from the 429 answer; the import runs perform no delay
   between their createIssue calls. *)
C10_PacingBetweenIssues ==
  /\ (prog = "deleteAllTasks" /\ pc = "awaitDelete" /\ attempts = 1 /\ idx > 1)
       => lastGap = [from |-> issues[idx - 1], to |-> issues[idx], ms |-> 500]
  /\ (prog = "deleteAllTasks" /\ pc = "awaitDelete" /\ attempts > 1)
       => lastGap = [from |-> issues[idx], to |-> issues[idx],
                     ms |-> IF Last(waits) >= 1 THEN Last(waits) ELSE 1]
  /\ prog \in ImportRuns => lastGap.ms = 0 /\ sinceCall <= 0

\* the first call for the second issue, the first issue having been given up
C10_Witness ==
  /\ prog = "deleteAllTasks" /\ pc = "awaitDelete"
  /\ idx = 2 /\ attempts = 1
  /\ delResult = <<"Failed">>

\* the deleteIssue calls sent for the k-th fetched issue
DeleteCallsFor(k) == { c \in 1..Len(delCalls) : delCalls[c] = issues[k] }

(* C11: however the delete of an issue ends (retries exhausted under rate limiting,
   another error, success), deleteAllTasks goes on to every later issue of the
   fetched list: the loop of an issue starts with retries = 0 and success = false,
   every issue before the current one has received a deleteIssue call and has its
   result, and when the run has finished every fetched issue has received at least
   one deleteIssue call. *)
C11_EveryIssueAttempted ==
  prog = "deleteAllTasks"
    => /\ (pc = "delete" /\ attempts = 0) => (retries = 0 /\ ~success)
       /\ pc \in {"delete", "awaitDelete", "backoff", "pacing"}
            => /\ \A k \in 1..(idx - 1) : DeleteCallsFor(k) # {}
               /\ Len(delResult) >= idx - 1
       /\ pc = "finished"
            => /\ \A k \in 1..Len(issues) : DeleteCallsFor(k) # {}
               /\ Len(delResult) = Len(issues)

\* a finished run whose first issue was given up after three rate limits and whose
\* second issue failed with another error at its first call
C11_Witness ==
  /\ prog = "deleteAllTasks" /\ pc = "finished"
  /\ delCalls = <<"i1", "i1", "i1", "i2">>
  /\ delResult = <<"Failed", "Failed">>

\* the createIssue calls of the run that returned an issue
CreatedResponses == { r \in 1..Len(responses) : responses[r].result = "ok" }

(* C12: in the hierarchical import runs the id map holds, in every reachable state,
   exactly what the createIssue calls that returned so far have given: every entry
   localId -> remoteId comes from a returned call for the record localId whose
   result carried the id remoteId, and the entry of every returned call is still
   there (no entry is ever deleted). directImport keeps no id map. *)
C12_IdMapFromCreatedIssues ==
  prog \in ImportRuns
    => /\ \A k \in DOMAIN taskIdMap :
            \E r \in CreatedResponses :
              /\ responses[r].task = k
              /\ responses[r].id = taskIdMap[k]
              /\ CallsFor(k) # {}
       /\ prog \in HierarchicalRuns
            => \A r \in CreatedResponses :
                 /\ responses[r].task \in DOMAIN taskIdMap
                 /\ taskIdMap[responses[r].task] = responses[r].id
       /\ prog = "directImport" => DOMAIN taskIdMap = {}

\* a finished run that created a root and then its child, with a failed create in
\* between: two entries in the map
C12_Witness ==
  /\ prog = "createTasksInPlane" /\ pc = "done"
  /\ Cardinality(DOMAIN taskIdMap) = 2
  /\ Len(responses) = 3
  /\ responses[2].result = "error"
  /\ calls[3].parent = taskIdMap[responses[1].task]

\* the batch [A, a root to plan; B, a child of A to complete]
RootAndChild ==
  << Task("A", null, "taches en planning"), Task("B", "A", "taches à completer") >>

\* a catalog with the backlog state s1 and the to_do state s2
BacklogAndToDo == << IssueState("s1", "Backlog"), IssueState("s2", "to_do") >>

\* the answer to the createIssue call of the record with local id i: its position
\* in responses
ResponsesFor(i) == { r \in 1..Len(responses) : responses[r].task = i }

(* C13: createTasksInPlane on the batch [A root 'taches en planning', B child of A
   'taches à completer'] with a catalog that has s1 for backlog and s2 for to_do:
   the first create sent is A's, with state s1 and no parent; when it has
   succeeded, the second create sent is B's, with state s2 and with parent the
   remote id A's create returned; with both creates succeeding the run ends with
   exactly these two calls. testImport, on its own batch and the same catalog,
   sends every root with s1 and no parent and every child with s2 and the remote
   id returned for its parent. *)
C13_RootThenChild ==
  /\ (prog = "createTasksInPlane" /\ tasks = RootAndChild /\ states = BacklogAndToDo)
       => /\ Len(calls) >= 1
               => calls[1] = [task |-> "A", state |-> "s1", parent |-> undefined]
          /\ Len(calls) >= 2
               => /\ responses[1].result = "ok"
                  /\ calls[2] = [task |-> "B", state |-> "s2",
                                 parent |-> responses[1].id]
          /\ (pc = "done" /\ CreatedResponses = {1, 2})
               => /\ Len(calls) = 2
                  /\ OutcomeKinds = {"Created"}
          /\ (pc = "done" /\ responses[1].result = "ok") => Len(calls) = 2
  /\ (prog = "testImport" /\ states = BacklogAndToDo)
       => \A c \in 1..Len(calls) :
            \A k \in RecordsWithId(calls[c].task) :
              IF tasks[k].parentId = null
                THEN calls[c].state = "s1" /\ calls[c].parent = undefined
              ELSE /\ calls[c].state = "s2"
                   /\ \E r \in ResponsesFor(tasks[k].parentId) \cap CreatedResponses :
                        /\ r < c
                        /\ calls[c].parent = responses[r].id

\* both creates of the two-record batch have succeeded
C13_Witness ==
  /\ prog = "createTasksInPlane" /\ pc = "done"
  /\ tasks = RootAndChild /\ states = BacklogAndToDo
  /\ CreatedResponses = {1, 2}
  /\ calls[2].parent = "r1"

(* C15: a run-level error ends the run before any mutation. As long as the project
   is not resolved the run is at initialize or has ended there, and in testImport
   and directImport, which have no fallback for the state, an empty state list
   ends the run at once: in both cases no record is processed and no createIssue
   (for the clean-up run, no deleteIssue) call is ever sent; a run that ended by
   an error or an early return has sent none. *)
C15_RunLevelErrorAborts ==
  /\ ~Truthy(projectId)
       => /\ pc \in {"initialize", "aborted"}
          /\ calls = <<>> /\ delCalls = <<>> /\ outcomes = <<>>
  /\ (prog \in {"testImport", "directImport"} /\ states = <<>>)
       => /\ pc \in {"initialize", "getIssueStates", "aborted", "returned"}
          /\ calls = <<>> /\ outcomes = <<>>
  /\ pc \in {"aborted", "returned"}
       => /\ calls = <<>> /\ delCalls = <<>>
          /\ inflight = NoTask
          /\ DOMAIN taskIdMap = {} /\ createdTasks = <<>>

\* testImport has returned on an empty state list
C15_Witness ==
  /\ prog = "testImport" /\ pc = "returned"
  /\ Truthy(projectId) /\ states = <<>>

-----------------------------------------------------------------------------
(* The functions of the scripts and of the client, each applied on its own to
   arguments of a wider range than the runs above draw: fn names the function
   applied last, arg its argument, ret what it returned *)

\* priorityMap of the import scripts
priorityMap ==
  [k \in {"1", "2", "3", "4", "null"} |->
     CASE k = "1" -> "urgent"
       [] k = "2" -> "high"
       [] k = "3" -> "medium"
       [] k = "4" -> "low"
       [] OTHER -> "none"]

\* priority: priorityMap[task.priority || 'null']
TranslatePriority(priority) ==
  Get(priorityMap, IF Truthy(priority) THEN priority ELSE "null")

\* the status column of a record: the four labels of the vocabulary, a label that
\* is not in it, a label that is the name of an inherited property, an empty and
\* a missing column
StatusColumn == DOMAIN statusMap \cup {"en cours", "constructor", "", undefined}

\* the priority column of a record: the codes of the map, other codes, an empty
\* and a missing column
PriorityColumn ==
  {"1", "2", "3", "4", "null", "5", "0", "high", "toString", "", undefined, null}

\* the state lists the translation is applied with
StateCatalogs ==
  Catalogs \cup
    { << IssueState("s4", "completed"), IssueState("s5", "cancelled"),
         IssueState("s6", "BACKLOG"), IssueState("s7", "backlog") >>,
      << IssueState("s8", "done"), IssueState("s9", undefined),
         IssueState("", "cancelled") >> }

\* the translated fields of the payload createTasksInPlane builds for a record
TranslatedFields(ss, status, priority) ==
  [state |-> ResolveStateLiteral(ss, status),
   priority |-> TranslatePriority(priority)]

\* the payload of createTasksInPlane is built for a record
BuildPayload ==
  /\ fn = "none"
  /\ \E ss \in StateCatalogs, status \in StatusColumn, priority \in PriorityColumn :
       /\ fn' = "buildPayload"
       /\ arg' = [states |-> ss, status |-> status, priority |-> priority]
       /\ ret' = TranslatedFields(ss, status, priority)
  /\ UNCHANGED <<prog, clientVars, pc, projectId, idx, lastGap, sinceCall, importVars, deleteVars>>

\* the parentId of a record groupTasksByHierarchy can be given: null, a local id,
\* an empty column, a column that is missing from a short line
GroupParentRefs == {null, "A", "Z", "", undefined}

\* the record lists groupTasksByHierarchy is applied to, the empty one included
GroupInputs ==
  UNION { { [k \in 1..n |-> Task(LocalIds[k], par[k], "taches en planning")] :
              par \in [1..n -> GroupParentRefs] } :
          n \in 0..MaxTasks }

\* const { parentTasks, childTasks } = groupTasksByHierarchy(tasks)
GroupTasks ==
  /\ fn = "none"
  /\ \E ts \in GroupInputs :
       /\ fn' = "groupTasksByHierarchy"
       /\ arg' = ts
       /\ ret' = groupTasksByHierarchy(ts)
  /\ UNCHANGED <<prog, clientVars, pc, projectId, idx, lastGap, sinceCall, importVars, deleteVars>>

\* a second call on the same list (testImport calls it at lines 154 and 203)
GroupTasksAgain ==
  /\ fn = "groupTasksByHierarchy"
  /\ fn' = "groupTasksByHierarchy again"
  /\ arg' = arg
  /\ ret' = [first |-> ret, second |-> groupTasksByHierarchy(arg)]
  /\ UNCHANGED <<prog, clientVars, pc, projectId, idx, lastGap, sinceCall, importVars, deleteVars>>

\* assigneeMap of the import scripts
assigneeMap ==
  [k \in {"Constant Suchet", "Timothe SANDT", "Tahra Amine"} |->
     CASE k = "Constant Suchet" -> "979222fc-93e1-4f1b-9eea-a2bf991f63d2"
       [] k = "Timothe SANDT" -> "d5a15f09-6955-4374-b6d5-7a1c98cb614a"
       [] OTHER -> "33af4a89-f0ee-4f72-b7e5-3181c8b415f1"]

\* longest assignees column, in tokens
MaxTokens == 5

\* a column as the sequence of its tokens, and a column that a short line lacks
Str(text) == [present |-> TRUE, text |-> text]
NoStr == [present |-> FALSE, text |-> <<>>]

\* the tokens of an assignees column: the brackets, the separator, a blank, two
\* names of the directory, a name that is not in it, and a name that is not in it
\* but is the name of an inherited property
AssigneeTokens ==
  {"[", "]", ",", " ", "Constant Suchet", "Timothe SANDT", "Bob", "constructor"}

AssigneesColumn ==
  {NoStr} \cup { Str(t) : t \in UNION { [1..n -> AssigneeTokens] : n \in 0..MaxTokens } }

\* a date or duration column: empty, the token 'null', a value, missing
DateColumn == {"", "null", "3/29/2025", undefined}

\* the nine columns of a line, as line.split(';') and the destructuring give them
\* (undefined, NoStr: the line is too short to have the column)
Line(id, name, status, dueDate, startDate, parentId, assigneesStr, priority, timeEstimated) ==
  [id |-> id, name |-> name, status |-> status, dueDate |-> dueDate,
   startDate |-> startDate, parentId |-> parentId, assigneesStr |-> assigneesStr,
   priority |-> priority, timeEstimated |-> timeEstimated]

\* the lines parseTaskData is applied to: every date and duration column with a
\* fixed assignees column, every assignees column with fixed dates, and the lines
\* that are too short (the only line of an empty file among them)
CsvLines ==
  { Line("A", "Task", "taches en planning", d, s, p,
         Str(<<"[", "Constant Suchet", "]">>), "1", t) :
      d \in DateColumn \ {undefined}, s \in DateColumn \ {undefined},
      p \in {"null", "B", ""}, t \in DateColumn }
    \cup { Line("A", "Task", "taches en planning", "3/29/2025", "", "null", a, "1",
                "2h") : a \in AssigneesColumn }
    \cup { Line("", undefined, undefined, undefined, undefined, undefined, NoStr,
                undefined, undefined),
           Line("A", "Task", "taches en planning", "null", undefined, undefined,
                NoStr, undefined, undefined) }

\* the files: one line, or two lines of which the second has no assignee
CsvFiles ==
  { <<l>> : l \in CsvLines }
    \cup { <<l, Line("B", "Other", "taches à completer", "", "null", "A",
                     Str(<<"[", "]">>), "null", "")>> :
           l \in { m \in CsvLines : m.assigneesStr = NoStr } }

\* the places of the token c in text
Places(text, c) == { i \in 1..Len(text) : text[i] = c }
Min(S) == CHOOSE x \in S : \A y \in S : x <= y
Max(S) == CHOOSE x \in S : \A y \in S : x >= y

\* what (.*) captures in assigneesStr.match(/\[(.*)\]/): the match starts at the
\* first '[' that has a ']' after it and, (.*) being greedy, ends at the last ']'
NoMatch == [matched |-> FALSE, group |-> <<>>]
MatchBrackets(text) ==
  IF Places(text, "[") # {} /\ Places(text, "]") # {}
       /\ Min(Places(text, "[")) < Max(Places(text, "]"))
    THEN [matched |-> TRUE,
          group |-> SubSeq(text, Min(Places(text, "[")) + 1,
                           Max(Places(text, "]")) - 1)]
  ELSE NoMatch

RECURSIVE Split(_, _)
\* text.split(c): the pieces between the separators, one empty piece for ''
Split(text, c) ==
  IF Places(text, c) = {} THEN <<text>>
  ELSE LET i == Min(Places(text, c))
       IN <<SubSeq(text, 1, i - 1)>> \o Split(SubSeq(text, i + 1, Len(text)), c)

RECURSIVE Trim(_)
\* String.prototype.trim: the blanks at both ends go
Trim(text) ==
  IF text = <<>> THEN text
  ELSE IF Head(text) = " " THEN Trim(Tail(text))
  ELSE IF text[Len(text)] = " " THEN Trim(SubSeq(text, 1, Len(text) - 1))
  ELSE text

\* the string a piece of the list is: the empty string, a single token, or a
\* string made of several tokens, which is none of the names above
SeveralTokens == "<several tokens>"
NameOf(piece) ==
  IF piece = <<>> THEN ""
  ELSE IF Len(piece) = 1 THEN piece[1]
  ELSE SeveralTokens

\* assigneesMatch ? assigneesMatch[1].split(',').map(n => n.trim()) : []
AssigneeNames(assigneesStr) ==
  IF assigneesStr.present /\ MatchBrackets(assigneesStr.text).matched
    THEN LET pieces == Split(MatchBrackets(assigneesStr.text).group, ",")
         IN [k \in 1..Len(pieces) |-> NameOf(Trim(pieces[k]))]
  ELSE <<>>

\* assigneeNames.map(name => assigneeMap[name]).filter(Boolean)
ParseAssignees(assigneesStr) ==
  LET names == AssigneeNames(assigneesStr)
  IN SelectSeq([k \in 1..Len(names) |-> Get(assigneeMap, names[k])], Truthy)

\* dueDate && dueDate !== '' ? dueDate : null
ValueOrNull(column) == IF Truthy(column) /\ column # "" THEN column ELSE null

\* the record parseTaskData pushes for a line
ParseLine(line) ==
  [id |-> line.id, name |-> line.name, status |-> line.status,
   dueDate |-> ValueOrNull(line.dueDate),
   startDate |-> ValueOrNull(line.startDate),
   parentId |-> IF line.parentId = "null" THEN null ELSE line.parentId,
   assignees |-> ParseAssignees(line.assigneesStr),
   priority |-> line.priority,
   timeEstimated |-> ValueOrNull(line.timeEstimated)]

\* parseTaskData on the lines of csvData.trim().split('\n')
parseTaskData(lines) == [k \in 1..Len(lines) |-> ParseLine(lines[k])]

\* const tasks = parseTaskData(csvData)
ParseTaskData ==
  /\ fn = "none"
  /\ \E lines \in CsvFiles :
       /\ fn' = "parseTaskData"
       /\ arg' = lines
       /\ ret' = parseTaskData(lines)
  /\ UNCHANGED <<prog, clientVars, pc, projectId, idx, lastGap, sinceCall, importVars, deleteVars>>

\* what a call gives back: a value, or the error it threw
Returned(value) == [threw |-> FALSE, value |-> value]
Threw(error) == [threw |-> TRUE, value |-> error]

\* the scripts' reading of the answer of getIssueStates
ReadStates ==
  /\ fn = "none"
  /\ \E r \in StatesResponses :
       /\ fn' = "states"
       /\ arg' = r
       /\ ret' = Returned(NormaliseStates(r))
  /\ UNCHANGED <<prog, clientVars, pc, projectId, idx, lastGap, sinceCall, importVars, deleteVars>>

\* deleteAllTasks' reading of the answer of getIssues
ReadIssues ==
  /\ fn = "none"
  /\ \E r \in IssuesResponses :
       /\ fn' = "issues"
       /\ arg' = r
       /\ ret' = Returned(NormaliseIssues(r))
  /\ UNCHANGED <<prog, clientVars, pc, projectId, idx, lastGap, sinceCall, importVars, deleteVars>>

\* the states of the project by name, as ensureStateExists reads them
NamedState(id, name) == [id |-> id, name |-> name]
NamedCatalogs ==
  { <<>>,
    << NamedState("s1", "Backlog") >>,
    << NamedState("s1", "Backlog"), NamedState("s2", "Started"),
       NamedState("s3", "backlog") >> }

\* the answers of the states endpoint: a bare array, an envelope with results
NamedStatesResponses ==
  { [isArray |-> TRUE, hasResults |-> FALSE, items |-> c] : c \in NamedCatalogs }
    \cup { [isArray |-> FALSE, hasResults |-> TRUE, items |-> c] : c \in NamedCatalogs }

\* the stateName argument
StateNames == {"backlog", "Backlog", "started", "Done"}

NoNamedState == [id |-> undefined, name |-> undefined]

RECURSIVE FindStateByName(_, _)
\* states.find(s => s.name.toLowerCase() === stateName.toLowerCase())
FindStateByName(ss, stateName) ==
  IF ss = <<>> THEN NoNamedState
  ELSE IF toLowerCase(Head(ss).name) = toLowerCase(stateName) THEN Head(ss)
  ELSE FindStateByName(Tail(ss), stateName)

\* PlaneClient.ensureStateExists on an initialized client: getIssueStates returns
\* response.data as it is, and find is a method of arrays only
ensureStateExists(response, stateName) ==
  IF ~response.isArray THEN Threw("TypeError: states.find is not a function")
  ELSE LET existingState == FindStateByName(response.items, stateName)
       IN IF existingState # NoNamedState THEN Returned(existingState.id)
          ELSE Returned("")

\* await client.ensureStateExists(stateName, group)
EnsureStateExists ==
  /\ fn = "none"
  /\ Truthy(projectId)
  /\ \E r \in NamedStatesResponses, stateName \in StateNames :
       /\ fn' = "ensureStateExists"
       /\ arg' = [response |-> r, stateName |-> stateName]
       /\ ret' = ensureStateExists(r, stateName)
  /\ UNCHANGED <<prog, clientVars, pc, projectId, idx, lastGap, sinceCall, importVars, deleteVars>>

InitFunctions ==
  /\ prog = "none"
  /\ pc = "functions"
  /\ projectId = "p1"
  /\ states = <<>>
  /\ tasks = <<>>
  /\ idx = 0
  /\ inflight = NoTask
  /\ taskIdMap = EmptyObject
  /\ createdTasks = <<>>
  /\ calls = <<>>
  /\ outcomes = <<>>
  /\ responses = <<>>
  /\ lastGap = NoGap
  /\ sinceCall = -1
  /\ issues = <<>>
  /\ retries = 0
  /\ success = FALSE
  /\ attempts = 0
  /\ waits = <<>>
  /\ replies = <<>>
  /\ waitTimeMs = 0
  /\ delResult = <<>>
  /\ delCalls = <<>>
  /\ fn = "none"
  /\ arg = <<>>
  /\ ret = <<>>
  /\ env = ScriptEnv
  /\ constructed = TRUE
  /\ history = <<>>

NextFunctions ==
  \/ BuildPayload
  \/ GroupTasks
  \/ GroupTasksAgain
  \/ ParseTaskData
  \/ ReadStates
  \/ ReadIssues
  \/ EnsureStateExists

SpecFunctions == InitFunctions /\ [][NextFunctions]_vars

\* the key the vocabulary gives for a status label, 'backlog' for a label that is
\* not in the vocabulary
MappedStatusKey(status) ==
  IF status \in DOMAIN statusMap THEN statusMap[status] ELSE "backlog"

\* the ids of the catalog states whose lower-cased group is key
StatesOfGroup(ss, key) ==
  { ss[k].id : k \in { j \in 1..Len(ss) :
                         Truthy(ss[j].group) /\ toLowerCase(ss[j].group) = key } }

(* C14: the state field of a payload built by createTasksInPlane is the id of a
   catalog state whose lower-cased group equals the record's mapped status key,
   or the literal mapped key itself ('backlog' when the status label is not in
   the vocabulary); it is never empty or undefined. *)
C14_StateFieldLiteralFallback ==
  fn = "buildPayload"
    => /\ \/ ret.state \in StatesOfGroup(arg.states, MappedStatusKey(arg.status))
          \/ ret.state = MappedStatusKey(arg.status)
       /\ ret.state \notin {"", undefined, null, InheritedFunction}

(* C16: the priority of a payload is urgent, high, medium, low, none for the
   codes '1', '2', '3', '4' and 'null' (or an absent priority), none for every
   other code, and in no case a value outside {urgent, high, medium, low, none}. *)
C16_PriorityTranslation ==
  fn = "buildPayload"
    => /\ arg.priority = "1" => ret.priority = "urgent"
       /\ arg.priority = "2" => ret.priority = "high"
       /\ arg.priority = "3" => ret.priority = "medium"
       /\ arg.priority = "4" => ret.priority = "low"
       /\ arg.priority \in {"null", "", undefined, null} => ret.priority = "none"
       /\ arg.priority \notin {"1", "2", "3", "4", "null", "", undefined, null}
            => ret.priority = "none"
       /\ ret.priority \in {"urgent", "high", "medium", "low", "none"}

\* the number of roots among the first k records of ts
RootsUpTo(ts, k) == Cardinality({ j \in 1..k : ts[j].parentId = null })

\* g is the partition of ts into roots and others, each in the order of ts: the
\* k-th record is at the place of its rank among the records of its kind, in the
\* list of its kind, and the two lists hold nothing else
IsOrderedPartition(ts, g) ==
  /\ Len(g.parentTasks) + Len(g.childTasks) = Len(ts)
  /\ \A k \in 1..Len(ts) :
       IF ts[k].parentId = null
         THEN /\ RootsUpTo(ts, k) \in 1..Len(g.parentTasks)
              /\ g.parentTasks[RootsUpTo(ts, k)] = ts[k]
              /\ \A j \in 1..Len(g.childTasks) : g.childTasks[j] # ts[k]
         ELSE /\ k - RootsUpTo(ts, k) \in 1..Len(g.childTasks)
              /\ g.childTasks[k - RootsUpTo(ts, k)] = ts[k]
              /\ \A j \in 1..Len(g.parentTasks) : g.parentTasks[j] # ts[k]

(* C17: groupTasksByHierarchy partitions its input: every record is in exactly one
   of parentTasks (parentId null) and childTasks (parentId not null: a reference,
   an empty or a missing column), each list in input order; the input list is as
   it was, and a second call on it returns the same two lists. *)
C17_GroupingPartitions ==
  /\ fn = "groupTasksByHierarchy" => IsOrderedPartition(arg, ret)
  /\ fn = "groupTasksByHierarchy again"
       => /\ IsOrderedPartition(arg, ret.first)
          /\ IsOrderedPartition(arg, ret.second)
          /\ ret.second = ret.first
          /\ arg \in GroupInputs

\* a second call on a list of MaxTasks records that has a root after a record
\* without parent column and a record with an empty one
C17_Witness ==
  /\ fn = "groupTasksByHierarchy again"
  /\ Len(arg) = MaxTasks
  /\ arg[1].parentId = undefined /\ arg[2].parentId = "" /\ arg[3].parentId = null
  /\ Len(ret.second.childTasks) = MaxTasks - 1

\* the date and duration columns of a line and of the record made of it
DateFields(r) == <<r.dueDate, r.startDate, r.timeEstimated>>

(* C18: parseTaskData maps a dueDate, startDate or timeEstimated column that is
   the empty string or the token 'null' to null in the record, and carries any
   other value of the column unchanged. *)
C18_EmptyOrNullTokenIsAbsent ==
  fn = "parseTaskData"
    => /\ Len(ret) = Len(arg)
       /\ \A k \in 1..Len(arg) : \A c \in 1..3 :
            LET column == DateFields(arg[k])[c]
                field == DateFields(ret[k])[c]
            IN /\ column \in {"", "null"} => field = null
               /\ column \notin {"", "null", undefined} => field = column

\* the ids of the directory
AssigneeIds == { assigneeMap[n] : n \in DOMAIN assigneeMap }

\* the ids of the names of a list that are in the directory, in the order of the list
RECURSIVE IdsOfNames(_)
IdsOfNames(names) ==
  IF names = <<>> THEN <<>>
  ELSE IF Head(names) \in DOMAIN assigneeMap
    THEN <<assigneeMap[Head(names)]>> \o IdsOfNames(Tail(names))
  ELSE IdsOfNames(Tail(names))

(* C19: the assignees of a parsed record are ids of the directory only: for a
   column that is the bracketed list of one name or of two names, the ids of the
   names that are in the directory, in the order of the list, names that are not
   in it dropped; for a missing column or one without a bracketed part, the empty
   list. *)
C19_AssigneesTranslated ==
  fn = "parseTaskData"
    => \A k \in 1..Len(arg) :
         LET column == arg[k].assigneesStr
         IN /\ \A a \in 1..Len(ret[k].assignees) : ret[k].assignees[a] \in AssigneeIds
            /\ (~column.present \/ Places(column.text, "[") = {}
                  \/ Places(column.text, "]") = {})
                 => ret[k].assignees = <<>>
            /\ \A n1, n2 \in AssigneeTokens \ {"[", "]", ",", " "} :
                 /\ column = Str(<<"[", n1, "]">>)
                      => ret[k].assignees = IdsOfNames(<<n1>>)
                 /\ column = Str(<<"[", n1, ",", n2, "]">>)
                      => ret[k].assignees = IdsOfNames(<<n1, n2>>)

\* the ids of the states of a list whose name is stateName, case apart
IdsOfName(items, stateName) ==
  { items[k].id : k \in { j \in 1..Len(items) :
                            toLowerCase(items[j].name) = toLowerCase(stateName) } }

(* C20: every caller of a list operation handles both shapes of the answer: be it
   a bare sequence or an envelope with a results field, the scripts' reading of
   the states and of the issues gives the sequence of items, and
   ensureStateExists, which searches the result of getIssueStates, does not fail
   and answers from the same items: the id of a state of that name, or '' when
   there is none. *)
C20_BothShapesHandled ==
  /\ fn \in {"states", "issues"}
       => /\ ~ret.threw
          /\ (arg.isArray \/ arg.hasResults) => ret.value = arg.items
  /\ fn = "ensureStateExists"
       => /\ ~ret.threw
          /\ IF IdsOfName(arg.response.items, arg.stateName) = {}
               THEN ret.value = ""
             ELSE ret.value \in IdsOfName(arg.response.items, arg.stateName)

-----------------------------------------------------------------------------
(* PlaneClient (src/src/planeClient.ts) on its own: the constructor, initialize()
   and the methods, called in any order on one client; history keeps, per call,
   the method, what it gave back and the HTTP request it sent *)

\* longest series of calls made on a client
MaxCalls == 3

\* the environments a client is constructed in: every variable there or not, the
\* project name that of a project or of none
Envs ==
  { Env(url, key, slug, project) :
      url \in {undefined, "https://plane"}, key \in {undefined, "plane_api_key"},
      slug \in {undefined, "workspace"}, project \in {undefined, "P1", "P3"} }

\* !process.env.PLANE_API_URL || !process.env.PLANE_API_KEY || !process.env.WORKSPACE_SLUG
MissingEnvironment(e) ==
  ~Truthy(e.PLANE_API_URL) \/ ~Truthy(e.PLANE_API_KEY) \/ ~Truthy(e.WORKSPACE_SLUG)

\* an HTTP request: verb, resource of the workspace or of the project, the project
\* id in the path, the query parameters
Request(verb, resource, project, page, per_page) ==
  [verb |-> verb, resource |-> resource, project |-> project, page |-> page,
   per_page |-> per_page]
NoRequest == Request("none", "none", undefined, 0, 0)

\* an entry of the history
Call(method, result, request) == [fn |-> method, ret |-> result, request |-> request]

\* new PlaneClient()
Construct ==
  /\ pc = "client" /\ ~constructed /\ history = <<>>
  /\ IF MissingEnvironment(env)
       THEN /\ constructed' = FALSE
            /\ history' = <<Call("constructor",
                                 Threw("Missing required environment variables"),
                                 NoRequest)>>
       ELSE /\ constructed' = TRUE
            /\ history' = <<Call("constructor", Returned("client"), NoRequest)>>
  /\ UNCHANGED <<prog, fnVars, env, pc, projectId, idx, lastGap, sinceCall, importVars,
                 deleteVars>>

\* the projects of the workspace: id and name
Project(id, name) == [id |-> id, name |-> name]
ProjectLists ==
  { <<>>,
    << Project("p1", "P1") >>,
    << Project("p2", "P2"), Project("p1", "P1"), Project("p9", "P1") >>,
    << Project("p2", "P2") >>,
    << Project("p0", undefined) >> }

\* the answers to GET projects: response.data a bare array, an envelope with a
\* results array, an object that is neither, nothing at all, or the request fails
ProjectsAnswers ==
  { [kind |-> k, items |-> l] : k \in {"array", "envelope"}, l \in ProjectLists }
    \cup { [kind |-> k, items |-> <<>>] : k \in {"object", "null", "network error"} }

NoProject == Project(undefined, "<no project>")

RECURSIVE FindProject(_, _)
\* projects.find(p => p.name === process.env.PROJECT_NAME)
FindProject(projects, name) ==
  IF projects = <<>> THEN NoProject
  ELSE IF Head(projects).name = name THEN Head(projects)
  ELSE FindProject(Tail(projects), name)

\* a lookup that takes the first project of the list, whatever its name
InitializeResult_FirstProject(answer, name) ==
  IF answer.kind \in {"array", "envelope"} /\ answer.items # <<>>
    THEN [ret |-> Returned(undefined), projectId |-> Head(answer.items).id]
  ELSE [ret |-> Threw("Error"), projectId |-> undefined]

\* the body of initialize(): what the call gives back and the projectId it sets
\* (undefined: none set)
InitializeResult(answer, name) ==
  CASE answer.kind = "network error" ->
         [ret |-> Threw("AxiosError"), projectId |-> undefined]
    [] answer.kind = "null" ->
         [ret |-> Threw("TypeError"), projectId |-> undefined]
    [] answer.kind = "object" ->
         [ret |-> Threw("Error: Unexpected API response format"),
          projectId |-> undefined]
    [] OTHER ->
         LET project == FindProject(answer.items, name)
         IN IF project = NoProject
              THEN [ret |-> Threw("Error: Project not found"), projectId |-> undefined]
            ELSE [ret |-> Returned(undefined), projectId |-> project.id]

\* an initialize() that resets the field before it looks for the project
ProjectIdAfter_ClearOnFailure(result, pid) == result.projectId

\* this.projectId = project.id is the last statement of the try block: a call that
\* throws has not reached it and the field keeps the value pid it had
ProjectIdAfter(result, pid) == IF result.ret.threw THEN pid ELSE result.projectId

\* await client.initialize()
InitializeClient ==
  /\ pc = "client" /\ constructed /\ Len(history) <= MaxCalls
  /\ \E answer \in ProjectsAnswers :
       LET result == InitializeResult(answer, env.PROJECT_NAME)
       IN /\ fn' = "initialize"
          /\ arg' = answer
          /\ ret' = result.ret
          /\ projectId' = ProjectIdAfter(result, projectId)
          /\ history' = Append(history,
                               Call("initialize", result.ret,
                                    Request("GET", "projects", undefined, 0, 0)))
  /\ UNCHANGED <<prog, env, constructed, pc, idx, lastGap, sinceCall, importVars,
                 deleteVars>>

\* the methods of the client
Methods ==
  {"createIssue", "getProjectMembers", "getProjects", "getIssueStates", "getLabels",
   "createLabel", "ensureStateExists", "getIssues", "updateIssue", "deleteIssue",
   "addIssueComment"}

\* the HTTP verb and the resource of the request a method sends
Verb(m) ==
  CASE m \in {"createIssue", "createLabel", "addIssueComment"} -> "POST"
    [] m = "updateIssue" -> "PATCH"
    [] m = "deleteIssue" -> "DELETE"
    [] OTHER -> "GET"
Resource(m) ==
  CASE m \in {"createIssue", "getIssues"} -> "issues"
    [] m \in {"updateIssue", "deleteIssue"} -> "issue"
    [] m = "addIssueComment" -> "comments"
    [] m = "getProjectMembers" -> "members"
    [] m = "getProjects" -> "projects"
    [] m \in {"getLabels", "createLabel"} -> "labels"
    [] OTHER -> "states"

\* a client that sends the request without looking at projectId
NotInitialized_Unchecked(m, pid) == FALSE

\* if (!this.projectId) throw new Error('Client not initialized. ...'): in every
\* method but getProjects
NotInitialized(m, pid) == m # "getProjects" /\ ~Truthy(pid)

\* the defaults of getIssues: const { page = 1, perPage = 20 } = params
DefaultPage == 1
DefaultPerPage == 20

\* an optional number of the params argument
Num(n) == [given |-> TRUE, value |-> n]
NoNum == [given |-> FALSE, value |-> 0]

\* the params argument of getIssues: nothing, a page, a perPage, both
GetIssuesParams ==
  { [page |-> p, perPage |-> q] : p \in {NoNum, Num(1), Num(3)},
                                   q \in {NoNum, Num(100), Num(50)} }
NoParams == [page |-> NoNum, perPage |-> NoNum]

\* the request of a method on an initialized client
RequestOf(m, pid, params) ==
  IF m = "getIssues"
    THEN Request("GET", "issues", pid,
                 IF params.page.given THEN params.page.value ELSE DefaultPage,
                 IF params.perPage.given THEN params.perPage.value ELSE DefaultPerPage)
  ELSE Request(Verb(m), Resource(m), IF m = "getProjects" THEN undefined ELSE pid, 0, 0)

\* the answers to the request of a method: data, or the request fails
MethodAnswers(m) ==
  IF m = "ensureStateExists"
    THEN { [failed |-> FALSE, data |-> r] : r \in NamedStatesResponses }
           \cup { [failed |-> TRUE, data |-> <<>>] }
  ELSE { [failed |-> FALSE, data |-> <<>>], [failed |-> TRUE, data |-> <<>>] }

\* what a method gives back for an answer: response.data, the rethrown error, and
\* for ensureStateExists the id it finds
MethodResult(m, answer) ==
  IF answer.failed THEN Threw("AxiosError")
  ELSE IF m = "ensureStateExists" THEN ensureStateExists(answer.data, "Backlog")
  ELSE Returned("response.data")

\* a method of the client is called
CallMethod ==
  /\ pc = "client" /\ constructed /\ Len(history) <= MaxCalls
  /\ \E m \in Methods :
       \E params \in (IF m = "getIssues" THEN GetIssuesParams ELSE {NoParams}) :
         \E answer \in MethodAnswers(m) :
           LET result ==
                 IF NotInitialized(m, projectId)
                   THEN Call(m, Threw("Client not initialized. Call initialize() first"),
                             NoRequest)
                 ELSE Call(m, MethodResult(m, answer), RequestOf(m, projectId, params))
           IN /\ fn' = m
              /\ arg' = params
              /\ ret' = result.ret
              /\ history' = Append(history, result)
  /\ UNCHANGED <<prog, env, constructed, pc, projectId, idx, lastGap, sinceCall,
                 importVars, deleteVars>>

InitClient ==
  /\ prog = "none"
  /\ pc = "client"
  /\ projectId = undefined
  /\ states = <<>>
  /\ tasks = <<>>
  /\ idx = 0
  /\ inflight = NoTask
  /\ taskIdMap = EmptyObject
  /\ createdTasks = <<>>
  /\ calls = <<>>
  /\ outcomes = <<>>
  /\ responses = <<>>
  /\ lastGap = NoGap
  /\ sinceCall = -1
  /\ issues = <<>>
  /\ retries = 0
  /\ success = FALSE
  /\ attempts = 0
  /\ waits = <<>>
  /\ replies = <<>>
  /\ waitTimeMs = 0
  /\ delResult = <<>>
  /\ delCalls = <<>>
  /\ fn = "none"
  /\ arg = <<>>
  /\ ret = <<>>
  /\ env \in Envs
  /\ constructed = FALSE
  /\ history = <<>>

NextClient ==
  \/ Construct
  \/ InitializeClient
  \/ CallMethod

SpecClient == InitClient /\ [][NextClient]_vars

\* the calls of the history before the k-th in which initialize() returned
InitializedBefore(k) ==
  { j \in 1..(k - 1) : history[j].fn = "initialize" /\ ~history[j].ret.threw }

NotInitializedError == Threw("Client not initialized. Call initialize() first")

(* C21: on a client on which no initialize() call has returned, every
   project-specific method (createIssue, getProjectMembers, getIssueStates,
   getLabels, createLabel, ensureStateExists, getIssues, updateIssue, deleteIssue,
   addIssueComment) throws the 'Client not initialized' error and sends no HTTP
   request; getProjects sends its request all the same and never throws that
   error. *)
C21_NotInitializedGuard ==
  \A k \in 1..Len(history) :
    /\ (history[k].fn \in Methods \ {"getProjects"} /\ InitializedBefore(k) = {})
         => /\ history[k].ret = NotInitializedError
            /\ history[k].request = NoRequest
    /\ history[k].fn = "getProjects"
         => /\ history[k].ret # NotInitializedError
            /\ history[k].request = Request("GET", "projects", undefined, 0, 0)

\* deleteIssue called after an initialize() that threw
C21_Witness ==
  /\ Len(history) = 3
  /\ history[2].fn = "initialize" /\ history[2].ret.threw
  /\ history[3].fn = "deleteIssue"
  /\ history[3].ret = NotInitializedError

\* the places of the projects of a list whose name is name
ProjectsNamed(items, name) == { i \in 1..Len(items) : items[i].name = name }

(* C22: initialize() returns only when the project list of the answer (a bare
   array or the results of an envelope) has a project whose name equals
   PROJECT_NAME, and projectId is then the id of that project (of the first one
   when several have the name); when no project has the name or the answer is not
   a list it throws an Error, and when the request fails it rethrows the network
   error. *)
C22_InitializeResolvesProject ==
  fn = "initialize"
    => LET named == IF arg.kind \in {"array", "envelope"}
                      THEN ProjectsNamed(arg.items, env.PROJECT_NAME) ELSE {}
       IN /\ ~ret.threw <=> named # {}
          /\ ~ret.threw
               => \E i \in named : /\ projectId = arg.items[i].id
                                   /\ \A j \in named : i <= j
          /\ arg.kind = "network error" => ret = Threw("AxiosError")
          /\ (arg.kind # "network error" /\ named = {})
               => ret.threw /\ ret.value # "AxiosError"
          /\ (ret.threw /\ \A k \in 1..Len(history) : history[k].ret.threw
                                                       \/ history[k].fn # "initialize")
               => projectId = undefined

\* initialize() has found the project P1, the second of an envelope's three
C22_Witness ==
  /\ fn = "initialize" /\ ~ret.threw
  /\ arg.kind = "envelope" /\ Len(arg.items) = 3
  /\ env.PROJECT_NAME = "P1"
  /\ projectId = "p1"

\* the variables the README marks as required
RequiredVariables ==
  {"PLANE_API_URL", "PLANE_API_KEY", "WORKSPACE_SLUG", "PROJECT_NAME"}

(* C23: constructing a PlaneClient throws an Error whenever one of the variables
   the README marks as required (PLANE_API_URL, PLANE_API_KEY, WORKSPACE_SLUG,
   PROJECT_NAME) is missing, and no client is produced then. *)
C23_ConstructorRequiresEnvironment ==
  (history # <<>> /\ \E v \in RequiredVariables : ~Truthy(env[v]))
    => /\ history[1] = Call("constructor",
                            Threw("Missing required environment variables"), NoRequest)
       /\ ~constructed

(* C24: getIssues without pagination parameters requests page 1 with 100 items per
   page, the documented defaults, and a page or perPage argument that is given is
   passed as page / per_page unchanged. *)
C24_GetIssuesPagination ==
  \A k \in 1..Len(history) :
    (history[k].fn = "getIssues" /\ history[k].request # NoRequest /\ k = Len(history))
      => /\ history[k].request.verb = "GET" /\ history[k].request.resource = "issues"
         /\ history[k].request.page = IF arg.page.given THEN arg.page.value ELSE 1
         /\ history[k].request.per_page
              = IF arg.perPage.given THEN arg.perPage.value ELSE 100

(* C25: every successful return of ensureStateExists(stateName, group) yields the
   id of a state of the project that has that name (compared without case), the
   state found or the state created, so that a state of that name exists
   afterwards. The call sends no request but the one that lists the states, so the
   states afterwards are the states listed. *)
C25_EnsureStateExistsYieldsId ==
  (fn = "ensureStateExists" /\ pc = "functions" /\ ~ret.threw)
    => /\ IdsOfName(arg.response.items, arg.stateName) # {}
       /\ ret.value \in IdsOfName(arg.response.items, arg.stateName)

\* the root records of the batch
RootRecords == { k \in 1..Len(tasks) : tasks[k].parentId = null }

(* C26: record processing is strictly sequential. At every moment of a run at most
   one remote call is in flight: a createIssue call goes out only when every
   earlier one has been answered, and so does a deleteIssue call; no answer is
   received but to the call in flight. In the hierarchical runs, when the create of
   a child record has been sent, every root record of the batch has been attempted:
   its create was sent and answered, or the record was skipped. *)
C26_StrictlySequential ==
  /\ Len(calls) - Len(responses) = IF inflight # NoTask THEN 1 ELSE 0
  /\ inflight # NoTask
       => /\ calls[Len(calls)].task = inflight.id
          /\ pc \notin {"awaitDelete", "done", "aborted", "returned"}
  /\ attempts - Len(replies) = IF pc = "awaitDelete" THEN 1 ELSE 0
  /\ pc = "awaitDelete" => inflight = NoTask /\ delCalls[Len(delCalls)] = issues[idx]
  /\ prog \in HierarchicalRuns
       => \A c \in 1..Len(calls) :
            \A k \in RecordsWithId(calls[c].task) :
              tasks[k].parentId # null
                => \A r \in RootRecords :
                     /\ OutcomesFor(tasks[r].id) # {}
                     /\ CallsFor(tasks[r].id) # {} => ResponsesFor(tasks[r].id) # {}

\* a child's create is in flight after one root was created and another failed
C26_Witness ==
  /\ prog = "createTasksInPlane"
  /\ inflight # NoTask /\ inflight.parentId # null
  /\ Len(calls) = 3 /\ Len(responses) = 2
  /\ ResponseKinds = {"ok", "error"}

\* the positions of the clean-up run, where issues are deleted
DeletePositions == {"getIssues", "delete", "awaitDelete", "backoff", "pacing", "finished"}

(* C27: an import run performs no compensating action. Whatever fails or is
   skipped, the run never is at a position where an issue is deleted and sends no
   deleteIssue call (no script calls updateIssue): the mutating calls it has sent
   are its createIssue calls, one per answer received or in flight, and every id
   a create returned is still an id the run holds as created. *)
C27_NoCompensatingAction ==
  prog \in ImportRuns \cup {"main"}
    => /\ delCalls = <<>> /\ attempts = 0 /\ delResult = <<>>
       /\ pc \notin DeletePositions
       /\ \A r \in CreatedResponses :
            /\ CallsFor(responses[r].task) # {}
            /\ prog \in HierarchicalRuns => taskIdMap[responses[r].task] = responses[r].id
            /\ prog \in {"testImport", "directImport"}
                 => \E c \in 1..Len(createdTasks) : createdTasks[c].id = responses[r].id

\* a finished run whose first record was created and whose later records failed or
\* were skipped
C27_Witness ==
  /\ prog = "createTasksInPlane" /\ pc = "done"
  /\ Len(tasks) = 3
  /\ CreatedResponses = {1}
  /\ {"Failed", "SkippedMissingParent"} \subseteq OutcomeKinds
  /\ delCalls = <<>>

\* the child records of the batch
ChildRecords == { k \in 1..Len(tasks) : tasks[k].parentId # null }

(* C28: every createIssue call sent for a child record carries as parent the remote
   id that an earlier create of the same run returned for the record whose local
   id is the child's parent reference; a child whose parent's create failed, or
   whose parent was skipped, is never sent. *)
C28_ChildCarriesParentRemoteId ==
  prog \in HierarchicalRuns
    => \A c \in 1..Len(calls) :
         \A k \in RecordsWithId(calls[c].task) \cap ChildRecords :
           \E r \in CreatedResponses :
             /\ r < c
             /\ responses[r].task = tasks[k].parentId
             /\ calls[c].parent = responses[r].id

(* C29: the children are processed in one pass, in input order, without a second
   attempt: a record whose parent is itself a child record is sent to createIssue
   only if that parent is earlier in the input and was created; when the parent is
   later in the input the record is skipped, once, and is never sent, although the
   parent may be created afterwards in the same run. *)
C29_SinglePassOverChildren ==
  prog \in HierarchicalRuns
    => \A k \in ChildRecords :
         \A j \in RecordsWithId(tasks[k].parentId) \cap ChildRecords :
           /\ CallsFor(tasks[k].id) # {}
                => /\ j < k
                   /\ \E r \in CreatedResponses : responses[r].task = tasks[j].id
           /\ (j > k /\ OutcomesFor(tasks[j].id) # {})
                => /\ CallsFor(tasks[k].id) = {}
                   /\ Cardinality(OutcomesFor(tasks[k].id)) = 1
                   /\ \A o \in OutcomesFor(tasks[k].id) :
                        outcomes[o].kind = "SkippedMissingParent"

-----------------------------------------------------------------------------
(* Termination.  Every step of a run is a piece of the script's own code, which
   the event loop runs, the firing of a timer, or the resolution of the one
   pending remote call, which is assumed to come: some step is taken whenever
   one is possible. *)

\* most records of a datas.csv in the runs checked for termination
MaxFairTasks == 2

\* fs.readFileSync('datas.csv') and parseTaskData, on a file of at most
\* MaxFairTasks records
ReadSmallCsv == ReadCsv /\ Len(tasks') <= MaxFairTasks

NextFair ==
  \/ InitializeOk
  \/ InitializeThrows
  \/ GetIssueStates
  \/ GetIssueStatesThrows
  \/ ReadSmallCsv
  \/ ReadCsvThrows
  \/ CreateParentTask
  \/ SkipParentNoState
  \/ SkipChildMissingParent
  \/ SkipChildNoState
  \/ CreateChildTask
  \/ MainCreate
  \/ DirectCreate
  \/ DirectSkipNoState
  \/ CreateIssueReturns
  \/ CreateIssueThrows
  \/ GetIssues
  \/ GetIssuesThrows
  \/ DeleteIssueSend
  \/ DeleteIssueReturns
  \/ DeleteIssueRateLimited
  \/ DeleteIssueFails
  \/ BackoffWait
  \/ PacingDelay

SpecFair == Init /\ [][NextFair]_vars /\ WF_vars(NextFair)

\* the run has ended: past its last statement, returned early, or process.exit(1)
Terminated == pc \in {"done", "finished", "returned", "aborted"}

\* the while loop of the current issue has ended and its result is recorded
RetryLoopEnded == Len(delResult) = idx /\ delResult[idx] \in {"Success", "Failed"}

(* C30 as stated: every run terminates, deleteAllTasks by reaching 'Task deletion
   process finished' or by exiting on a failure, and the retry loop of every issue
   ends in Success or Failed after at most 3 attempts. *)
C30_DeleteRunReachesFinished ==
  /\ <>Terminated
  /\ prog = "deleteAllTasks" => <>(pc \in {"finished", "aborted"})
  /\ [](attempts <= MAX_RETRIES)
  /\ [](pc = "pacing" => RetryLoopEnded)

(* C30, amended: every run terminates; deleteAllTasks ends by reaching 'Task
   deletion process finished', by returning when there is no issue to delete, or
   by exiting on a failure of initialize or of the fetch; the retry loop of every
   issue ends in Success or Failed after at most 3 attempts, also when every
   attempt is rate limited. *)
C30_EveryRunTerminates ==
  /\ <>Terminated
  /\ prog = "deleteAllTasks" => <>(pc \in {"finished", "returned", "aborted"})
  /\ [](attempts <= MAX_RETRIES)
  /\ [](pc = "pacing" => RetryLoopEnded)
  /\ [](pc \in {"delete", "awaitDelete", "backoff"} => <>(pc = "pacing"))

\* a clean-up run that finished after an issue was given up at its third rate limit
C30_Witness ==
  /\ prog = "deleteAllTasks"
  /\ pc = "finished"
  /\ \E i \in 1..Len(delResult) : delResult[i] = "Failed"
  /\ Len(delCalls) >= MAX_RETRIES
  /\ \E i \in 1..Len(issues) : Cardinality(DeleteCallsFor(i)) = MAX_RETRIES

-----------------------------------------------------------------------------
(* The skip-record policy of testImport *)

\* the state groups of the remote service
PlaneGroups == {"backlog", "unstarted", "started", "completed", "cancelled"}

\* every state of the fetched catalog carries one of the service's groups
CatalogOfPlaneGroups == \A s \in 1..Len(states) : states[s].group \in PlaneGroups

\* the records whose parent reference is the local id of record k
ChildrenOf(k) == { c \in 1..Len(tasks) : tasks[c].parentId = tasks[k].id }

\* record k was skipped: all its reports are skips and no create was sent for it
Skipped(k) ==
  /\ OutcomesFor(tasks[k].id) # {}
  /\ \A o \in OutcomesFor(tasks[k].id) :
       outcomes[o].kind \in {"SkippedUnmappableState", "SkippedMissingParent"}
  /\ CallsFor(tasks[k].id) = {}

(* C31: in testImport a record is sent to createIssue only if the mapping built
   from the catalog has an entry for the record's mapped status key, and the state
   sent is that entry; with a catalog whose groups are all among backlog,
   unstarted, started, completed, cancelled no record mapped to 'to_do' or 'done'
   is ever sent; and no child of a skipped record is ever sent: once the run is
   over each of them was skipped as well. *)
C31_SkipRecordPolicy ==
  prog = "testImport"
    => /\ \A c \in 1..Len(calls) : \A k \in RecordsWithId(calls[c].task) :
            /\ StatusKey(tasks[k].status) \in DOMAIN stateMapping
            /\ calls[c].state = stateMapping[StatusKey(tasks[k].status)]
       /\ CatalogOfPlaneGroups
            => \A k \in 1..Len(tasks) :
                 Get(statusMap, tasks[k].status) \in {"to_do", "done"}
                   => CallsFor(tasks[k].id) = {}
       /\ \A k \in 1..Len(tasks) :
            Skipped(k) => \A c \in ChildrenOf(k) :
                            /\ CallsFor(tasks[c].id) = {}
                            /\ pc = "done" => Skipped(c)

\* a testImport run that is over, on a catalog of the service's groups: the roots
\* were created, and the records mapped to 'to_do' were skipped for want of a state
C31_Witness ==
  /\ prog = "testImport" /\ pc = "done"
  /\ states # <<>> /\ CatalogOfPlaneGroups
  /\ calls # <<>>
  /\ \E k \in 1..Len(tasks) :
       /\ Get(statusMap, tasks[k].status) = "to_do"
       /\ Skipped(k)
       /\ \E o \in OutcomesFor(tasks[k].id) : outcomes[o].kind = "SkippedUnmappableState"

-----------------------------------------------------------------------------
(* The two state resolutions side by side *)

\* testImport can build its mapping from the catalog: state.group.toLowerCase()
\* throws on a state without a group
MappingBuilt(ss) == \A s \in 1..Len(ss) : Truthy(ss[s].group)

\* the state id testImport reads for a status label from the mapping of catalog ss
TestImportStateId(ss, status) == Get(BuildStateMapping(ss, EmptyObject), StatusKey(status))

(* C32: for the same catalog and the same record, whenever testImport creates the
   record (its mapping has a state id for the record's key), the state in the
   payload of createTasksInPlane is that same id, also when several states of the
   catalog share a group and when the status label is not in the vocabulary. *)
C32_SameStateInBothScripts ==
  fn = "buildPayload"
    => \/ ~MappingBuilt(arg.states)
       \/ ~Truthy(TestImportStateId(arg.states, arg.status))
       \/ ret.state = TestImportStateId(arg.states, arg.status)

-----------------------------------------------------------------------------
(* The backoff wait *)

(* C33: whatever the retry-after header of a rate-limit response carries (nothing,
   text that is no number, zero, a positive or a negative integer), the wait
   deleteAllTasks computes from it is at least the buffer of 1000 ms, and so is
   every wait it has recorded before sending the same delete again. *)
C33_WaitAtLeastBuffer ==
  /\ (replies # <<>> /\ replies[Len(replies)].result = "rate_limited")
       => waitTimeMs >= RETRY_AFTER_BUFFER_MS
  /\ \A w \in 1..Len(waits) : waits[w] >= RETRY_AFTER_BUFFER_MS

-----------------------------------------------------------------------------
(* The frame of projectId *)

\* the step is a call of initialize() that returned
InitializeReturned ==
  /\ Len(history') = Len(history) + 1
  /\ history'[Len(history')].fn = "initialize"
  /\ ~history'[Len(history')].ret.threw

(* C34: the projectId of a client changes only in a step that is an initialize()
   call which found the project, and then to the id of that project; no call of
   another method and no initialize() call that throws (request error, unexpected
   format, project not found) changes it, and once set it is never cleared. *)
C34_ProjectIdFrame ==
  [][ /\ projectId' # projectId
        => /\ InitializeReturned
           /\ \E i \in ProjectsNamed(arg'.items, env.PROJECT_NAME) :
                projectId' = arg'.items[i].id
      /\ ~InitializeReturned => projectId' = projectId
      /\ Truthy(projectId) => Truthy(projectId') ]_vars

\* a client initialized with project p1 on which a later initialize() call failed:
\* it still has p1 and getIssues sends its request for p1
C34_Witness ==
  /\ Len(history) = 4
  /\ history[2].fn = "initialize" /\ ~history[2].ret.threw
  /\ history[3].fn = "initialize" /\ history[3].ret.threw
  /\ history[4].fn = "getIssues" /\ ~history[4].ret.threw
  /\ history[4].request.project = "p1"
  /\ projectId = "p1"

-----------------------------------------------------------------------------
(* The summary of created tasks *)

SummaryRuns == {"testImport", "directImport"}

\* the createIssue call of this response returned the created issue
ReturnedIssue(response) == response.result = "ok"

\* the entry of the summary a returned call stands for
SummaryEntry(response) == [task |-> response.task, id |-> response.id]

\* the returned calls of the run, in the order in which they returned
ReturnedCalls == SelectSeq(responses, ReturnedIssue)

(* C35: in testImport and directImport the summary of created tasks holds, at the
   end of the run as at every moment before, one entry per createIssue call that
   has returned, in the order in which the calls returned; a record that was
   skipped or whose create failed has no entry. *)
C35_SummaryOfCreatedTasks ==
  prog \in SummaryRuns
    => /\ Len(createdTasks) = Len(ReturnedCalls)
       /\ \A i \in 1..Len(createdTasks) : createdTasks[i] = SummaryEntry(ReturnedCalls[i])
       /\ \A o \in 1..Len(outcomes) :
            outcomes[o].kind # "Created"
              => \A i \in 1..Len(createdTasks) : createdTasks[i].task # outcomes[o].task

\* a directImport run that is over: two records created, one failed or skipped
C35_Witness ==
  /\ prog = "directImport" /\ pc = "done"
  /\ Len(tasks) = 3
  /\ Len(createdTasks) = 2
  /\ createdTasks[1].task = tasks[1].id
  /\ createdTasks[2].task = tasks[3].id
  /\ \E o \in OutcomesFor(tasks[2].id) : outcomes[o].kind # "Created"
====
